---- MODULE Spec2Model ----
(***************************************************************************)
(* A model of the AutoML orchestration and evaluation engine of the        *)
(* time-series forecasting platform: the AutoML coordinator                *)
(* (services/automl/automl_service.py), the walk-forward backtester        *)
(* (services/backtesting.py, api/v1/endpoints/backtesting.py), the two     *)
(* feature engineers (services/feature_engineering/feature_service.py,     *)
(* ml/feature_engineering.py), the metric computations and forecasters     *)
(* (services/forecasting) and the training endpoint with its background    *)
(* task (api/v1/endpoints/training.py).                                    *)
(*                                                                         *)
(* Each component has its own specifications (SpecAutoML, SpecSearch,      *)
(* SpecSplit, SpecBacktest, SpecReport, SpecFeatures, SpecMetrics,         *)
(* SpecForecasters, SpecTraining) over its own variables, the other        *)
(* components' variables staying at their initial values.                  *)
(***************************************************************************)
EXTENDS Integers, Sequences, FiniteSets, TLC

(***************************************************************************)
(* Bounds of the model.                                                    *)
(***************************************************************************)
\* run() calls made on one coordinator
MaxRuns == 2
\* length of the requested algorithm list
MaxAlgs == 2
\* finite metric values are 1..MaxScore
MaxScore == 2
\* the constructor's max_trials is drawn from 0..MaxTrialBudget
MaxTrialBudget == 4

(***************************************************************************)
(* Metric values.  A score is a Python float: a finite value 1..MaxScore,  *)
(* float('inf') or NaN.                                                    *)
(***************************************************************************)
Inf == MaxScore + 1
NaN == MaxScore + 2
FiniteScores == 1..MaxScore
Scores == FiniteScores \cup {Inf, NaN}

\* Python's a < b on floats: false as soon as one side is NaN.
Lt(a, b) == a # NaN /\ b # NaN /\ a < b

(***************************************************************************)
(* AutoMLService: class constants.                                         *)
(***************************************************************************)
AVAILABLE_ALGORITHMS == <<"prophet", "xgboost", "lightgbm", "arima">>

Range(s) == {s[k] : k \in DOMAIN s}

\* len(self.AVAILABLE_ALGORITHMS)
NumAvailable == Len(AVAILABLE_ALGORITHMS)

\* names a caller puts in the requested list: a date-indexed algorithm, a
\* feature-indexed one and a name that is not registered
RequestNames == {"prophet", "xgboost", "bogus"}

\* algorithm searches one coordinator performs over all its run() calls: one
\* full default list
MaxSearches == NumAvailable

\* None, as a model handle
NoModel == [run |-> 0, idx |-> 0, algorithm |-> ""]

\* the object model_class(**best_params) creates in run() call number `r` at
\* position `k` of the algorithm loop, for algorithm `a`
ModelHandle(r, k, a) == [run |-> r, idx |-> k, algorithm |-> a]

VARIABLES
    \* --- AutoMLService object (automl_service.py:40-47)
    max_trials, timeout_seconds, results, best_model, best_score, best_algorithm,
    \* --- one run() call in progress
    run_pc,        \* "idle" | "loop" | "search" | "returned" | "raised"
    run_no,        \* number of run() calls started on this coordinator
    algorithms,    \* the `algorithms` list, validated (line 67)
    alg_idx,       \* position of the for loop of line 103 (1-based)
    all_results,   \* the local list of line 101
    split,         \* the train/validation parts of the current run() call
    study,         \* the trials of the current optuna study, in order
    elapsed,       \* seconds since the current study.optimize() started
    outcome,       \* the dictionary returned by the latest completed run()
    final_fit,     \* what lines 195-206 did in the latest _optimize_algorithm
    searches       \* number of _optimize_algorithm calls made so far

amlVars == <<max_trials, timeout_seconds, results, best_model, best_score,
             best_algorithm, run_pc, run_no, algorithms, alg_idx,
             all_results, split, study, elapsed, outcome, final_fit, searches>>

VARIABLES
    \* --- WalkForwardBacktester object (backtesting.py:7-13)
    initial_train_size, test_size, step_size, bt_results,
    \* --- one backtest() call in progress
    bt_pc,          \* "idle" | "loop" | "returned" | "raised" | "failed" | "http400"
    bt_calls,       \* number of backtest() / endpoint calls made
    n_samples,      \* len(y)
    fold,           \* the local fold counter (line 28)
    train_end,      \* the local train_end (line 29)
    bt_rows,        \* the rows of X and y: for each, the row of the data it is
    bt_y,           \* the y argument
    all_predictions, \* the local list of line 30
    all_actuals,    \* the local list of line 30
    bt_dates,       \* the dates argument: for each position, the row it dates
    bt_error,       \* what the raised error names: [need, got]
    bt_report,      \* the dictionary returned by the latest completed call
    models_created, \* number of model_class(**model_params) objects created
    model_fits,     \* for each object created, the X_train rows of its fit() calls
    ep_series,      \* the target column of the data set the endpoint loaded
    ep_request      \* the sizes the endpoint's request asked for

btVars == <<initial_train_size, test_size, step_size, bt_results, bt_pc,
            bt_calls, n_samples, fold, train_end, bt_rows, bt_y, all_predictions,
            all_actuals, bt_dates, bt_error, bt_report, models_created,
            model_fits, ep_series, ep_request>>

VARIABLES
    \* --- services.feature_engineering TimeSeriesFeatureEngineer object
    svc_series,       \* self.df[target_column], in date order
    svc_columns,      \* the columns the engine has added to self.df, in order
    created_features, \* self.created_features
    \* --- its create_all_features() calls
    svc_pc,           \* "new" | "returned" | "raised"
    svc_calls,        \* number of create_all_features() calls made
    svc_frame,        \* the frame the latest completed call returned
    svc_config,       \* the arguments of the latest create_all_features() call
    ml_feature_cols   \* the coordinator's ml_feature_cols (automl_service.py:84)

feVars == <<svc_series, svc_columns, created_features, svc_pc, svc_calls, svc_frame,
            svc_config, ml_feature_cols>>

VARIABLES
    \* --- the latest metric computation
    mt_fn,       \* "none" | "evaluate" | "_calculate_metrics"
    mt_true,     \* its y_true argument
    mt_pred,     \* its y_pred argument
    mt_result    \* what it returned, or that it raised

mtVars == <<mt_fn, mt_true, mt_pred, mt_result>>

VARIABLES
    \* --- one forecaster object of each class, and one file written by save()
    forecasters,   \* class name -> [auto_arima, is_fitted, fit_returned]
    fc_file,       \* the model_data of the latest save(), or NoFile
    fc_call        \* the latest predict/predict_interval call and its result

fcVars == <<forecasters, fc_file, fc_call>>

VARIABLES
    \* --- the database and the background tasks of the training endpoints
    automl_runs,     \* the rows of table automl_runs; the id is the position
    trained_models,  \* the rows of table trained_models; the id is the position
    task_queue,      \* the _run_automl_task calls scheduled and not yet started
    task_pc,         \* "none" | "automl" | "ended": the task being executed
    task,            \* the arguments of the task being executed
    tasks_ended      \* for each task that ended: its run, and what happened in it

trVars == <<automl_runs, trained_models, task_queue, task_pc, task, tasks_ended>>

notAutoML == <<btVars, feVars, mtVars, fcVars, trVars>>
notBacktest == <<amlVars, feVars, mtVars, fcVars, trVars>>
notFeatures == <<amlVars, btVars, mtVars, fcVars, trVars>>
notMetrics == <<amlVars, btVars, feVars, fcVars, trVars>>
notForecasters == <<amlVars, btVars, feVars, mtVars, trVars>>
notTraining == <<btVars, feVars, mtVars, fcVars>>

vars == <<amlVars, btVars, feVars, mtVars, fcVars, trVars>>

(***************************************************************************)
(* Python's list.sort on a short list (fewer than 64 elements): the first  *)
(* run is counted (and reversed when strictly descending), the remaining   *)
(* elements are inserted by binary insertion.  Every comparison is Lt on   *)
(* the keys, so the order with NaN keys is the one the algorithm yields.   *)
(***************************************************************************)
Reverse(s) == [k \in 1..Len(s) |-> s[Len(s) + 1 - k]]

RECURSIVE RunEnd(_, _, _)
\* end (inclusive) of the run that starts at 1, having reached position k
RunEnd(keys, k, descending) ==
    IF k >= Len(keys) THEN Len(keys)
    ELSE IF descending = Lt(keys[k + 1], keys[k])
         THEN RunEnd(keys, k + 1, descending)
         ELSE k

RECURSIVE BinarySearch(_, _, _, _)
\* the 0-based insertion point of `pivot` in the sorted prefix `keys`
BinarySearch(keys, pivot, l, r) ==
    IF l >= r THEN l
    ELSE LET p == l + ((r - l) \div 2)
         IN  IF Lt(pivot, keys[p + 1])
             THEN BinarySearch(keys, pivot, l, p)
             ELSE BinarySearch(keys, pivot, p + 1, r)

InsertAt(s, pos, x) == SubSeq(s, 1, pos) \o <<x>> \o SubSeq(s, pos + 1, Len(s))

\* key=lambda x: x.get("best_score", float('inf')): every record built by
\* run() or _optimize_algorithm carries best_score
SortKey(r) == r.best_score

RECURSIVE BinarySort(_, _)
\* `done` is sorted; insert the elements of `rest` one by one
BinarySort(done, rest) ==
    IF rest = <<>> THEN done
    ELSE LET pivot == Head(rest)
             keys  == [k \in 1..Len(done) |-> SortKey(done[k])]
             pos   == BinarySearch(keys, SortKey(pivot), 0, Len(done))
         IN  BinarySort(InsertAt(done, pos, pivot), Tail(rest))

\* all_results.sort(key=...)
ListSort(s) ==
    IF Len(s) < 2 THEN s
    ELSE LET keys == [k \in 1..Len(s) |-> SortKey(s[k])]
             desc == Lt(keys[2], keys[1])
             n    == RunEnd(keys, 2, desc)
             run  == SubSeq(s, 1, n)
             head == IF desc THEN Reverse(run) ELSE run
         IN  BinarySort(head, SubSeq(s, n + 1, Len(s)))

(***************************************************************************)
(* AutoMLService.__init__                                                  *)
(***************************************************************************)
\* no run() call is in progress
\* lines 195-206 have not run: no final model was created
NoFit == [fit_calls |-> 0, params |-> 0, model |-> NoModel, score |-> 0,
          raised |-> FALSE]

NoSplit == [n |-> 0, train_size |-> 0,
            X_ml_train |-> <<>>, X_ml_val |-> <<>>,
            X_stat_train |-> <<>>, X_stat_val |-> <<>>,
            y_train |-> <<>>, y_val |-> <<>>]

InitAutoMLObject(trials, timeout) ==
    /\ max_trials = trials
    /\ timeout_seconds = timeout
    /\ results = <<>>
    /\ best_model = NoModel
    /\ best_score = Inf
    /\ best_algorithm = ""
    /\ run_pc = "idle"
    /\ run_no = 0
    /\ algorithms = <<>>
    /\ alg_idx = 0
    /\ all_results = <<>>
    /\ study = <<>>
    /\ elapsed = 0
    /\ split = NoSplit
    /\ outcome = [best_algorithm |-> "", best_score |-> Inf, best_model |-> NoModel,
                  all_results |-> <<>>, algorithms_tested |-> <<>>]
    /\ final_fit = NoFit
    /\ searches = 0

(***************************************************************************)
(* The inputs of run(): the data frame is described by the columns it has, *)
(* which is all that lines 70-98 depend on for raising or not.             *)
(***************************************************************************)
\* The rows are described by their dates, in the order the frame holds them;
\* a date also names its row.
UnsortedDates == <<3, 1, 2, 5, 4>>

DataFrames == [has_date : BOOLEAN, has_target : BOOLEAN, dates : {UnsortedDates}]

RECURSIVE SortDates(_)
\* df.sort_values(date_column): the rows by ascending date (dates differ)
SortDates(dates) ==
    IF dates = <<>> THEN <<>>
    ELSE LET least == CHOOSE k \in DOMAIN dates : \A j \in DOMAIN dates : dates[k] <= dates[j]
         IN  <<dates[least]>>
             \o SortDates(SelectSeq(dates, LAMBDA d : d # dates[least]))

\* a split point that rounds to the nearest row
TrainSizeRounded(n) == (8 * n + 5) \div 10

\* line 94: int(len(df_features) * 0.8)
TrainSize(n) == (8 * n) \div 10

\* lines 70-98: the rows sorted by date, X_ml, X_stat and y taken from the
\* frame the feature engineer returns (one row per row of the data), and
\* each cut at train_size
SplitData(df) ==
    LET rows == SortDates(df.dates)
        n == Len(rows)
        train_size == TrainSize(n)
    IN  [n |-> n, train_size |-> train_size,
         X_ml_train   |-> SubSeq(rows, 1, train_size),
         X_ml_val     |-> SubSeq(rows, train_size + 1, n),
         X_stat_train |-> SubSeq(rows, 1, train_size),
         X_stat_val   |-> SubSeq(rows, train_size + 1, n),
         y_train      |-> SubSeq(rows, 1, train_size),
         y_val        |-> SubSeq(rows, train_size + 1, n)]

\* df.columns; "promo" is a covariate column every modelled data frame has
Columns(df) == {"promo"} \cup (IF df.has_date THEN {"date"} ELSE {})
                         \cup (IF df.has_target THEN {"target"} ELSE {})

\* the feature_columns argument: None, a column of df, a column df lacks
FeatureColumnChoices == {<<>>, <<"promo">>, <<"absent">>}

RECURSIVE SeqsUpTo(_, _)
\* the sequences over S of length at most n
SeqsUpTo(S, n) ==
    IF n = 0 THEN {<<>>}
    ELSE LET shorter == SeqsUpTo(S, n - 1)
         IN  shorter \cup {Append(s, x) : s \in {t \in shorter : Len(t) = n - 1}, x \in S}

RequestLists == SeqsUpTo(RequestNames, MaxAlgs)

RECURSIVE SelectSeq2(_, _)
\* [a for a in s if a in S]
SelectSeq2(s, S) ==
    IF s = <<>> THEN <<>>
    ELSE IF Head(s) \in S THEN <<Head(s)>> \o SelectSeq2(Tail(s), S)
         ELSE SelectSeq2(Tail(s), S)

\* lines 63-67: the default list, then the validation filter
ValidateAlgorithms(is_none, algs) ==
    SelectSeq2(IF is_none THEN AVAILABLE_ALGORITHMS ELSE algs,
               Range(AVAILABLE_ALGORITHMS))

\* lines 70-98 raise (KeyError) when the date column, the target column or an
\* extra feature column is not a column of the frame
PrepareRaises(df, feature_columns) ==
    \/ "date" \notin Columns(df)
    \/ "target" \notin Columns(df)
    \/ \E k \in DOMAIN feature_columns : feature_columns[k] \notin Columns(df)

\* an allotment that is never less than one trial
TrialAllotmentAtLeastOne ==
    IF max_trials \div NumAvailable = 0 THEN 1 ELSE max_trials \div NumAvailable

\* n_trials=self.max_trials // len(self.AVAILABLE_ALGORITHMS)
TrialAllotment == max_trials \div NumAvailable

\* timeout=self.timeout_seconds // len(self.AVAILABLE_ALGORITHMS)
TimeAllotment == timeout_seconds \div NumAvailable

(***************************************************************************)
(* run(), lines 60-101: validation of the list and preparation of the data *)
(***************************************************************************)
Run(df, feature_columns, is_none, algs) ==
    /\ UNCHANGED notAutoML
    /\ run_pc \in {"idle", "returned", "raised"}
    /\ run_no < MaxRuns
    /\ is_none => algs = <<>>
    /\ searches + Len(ValidateAlgorithms(is_none, algs)) <= MaxSearches
    /\ run_no' = run_no + 1
    /\ IF PrepareRaises(df, feature_columns)
       THEN /\ run_pc' = "raised"
            /\ UNCHANGED <<algorithms, alg_idx, all_results, split>>
       ELSE /\ run_pc' = "loop"
            /\ split' = SplitData(df)
            /\ algorithms' = ValidateAlgorithms(is_none, algs)
            /\ alg_idx' = 1
            /\ all_results' = <<>>
    /\ UNCHANGED <<max_trials, timeout_seconds, results, best_model, best_score,
                   best_algorithm, study, elapsed, outcome, final_fit, searches>>

(***************************************************************************)
(* _optimize_algorithm, lines 160-193: the optuna study.  A trial's value  *)
(* is what objective() returns: the metric, or inf when the trial raised.  *)
(* optuna records a trial that returned NaN as failed, the others as       *)
(* complete; it starts a trial only while fewer than n_trials have run and *)
(* fewer than timeout seconds have elapsed, which it checks between        *)
(* trials, and a trial that has started runs until objective() returns.    *)
(***************************************************************************)
StartSearch ==
    /\ UNCHANGED notAutoML
    /\ run_pc = "loop"
    /\ alg_idx <= Len(algorithms)
    /\ run_pc' = "search"
    /\ study' = <<>>
    /\ elapsed' = 0
    /\ searches' = searches + 1
    /\ UNCHANGED <<max_trials, timeout_seconds, results, best_model, best_score,
                   best_algorithm, run_no, algorithms, alg_idx,
                   all_results, split, outcome, final_fit>>

\* a study that starts trials whatever time has elapsed
CanStartTrialAnyTime(count, seconds) == count < TrialAllotment

\* study.optimize, between trials: the trial count and the deadline
CanStartTrial(count, seconds) ==
    count < TrialAllotment /\ seconds < TimeAllotment

\* study.optimize starts the next trial: objective(trial) is called
StartTrial ==
    /\ UNCHANGED notAutoML
    /\ run_pc = "search"
    /\ CanStartTrial(Len(study), elapsed)
    /\ run_pc' = "trial"
    /\ UNCHANGED <<max_trials, timeout_seconds, results, best_model, best_score,
                   best_algorithm, run_no, algorithms, alg_idx,
                   all_results, split, study, elapsed, outcome, final_fit,
                   searches>>

\* an objective that lets the exception of a trial become NaN
ObjectiveValueNaN(raises, metric) == IF raises THEN NaN ELSE metric

\* objective(), lines 164-184: the metric, or float('inf') when constructing,
\* fitting, predicting or evaluating raised
ObjectiveValue(raises, metric) == IF raises THEN Inf ELSE metric

\* the trial optuna stores for a returned value
TrialRecord(raises, metric) ==
    [value  |-> ObjectiveValue(raises, metric),
     raised |-> raises,
     state  |-> IF ObjectiveValue(raises, metric) = NaN THEN "FAIL" ELSE "COMPLETE"]

\* the seconds a trial may take: a short one, and one outlasting any allotment
TrialSeconds == {1, 100}

\* the clock is read only to compare it with the allotment
Clock(seconds) == IF seconds >= TimeAllotment THEN TimeAllotment ELSE seconds

\* objective(trial) returns after `seconds` seconds and the trial is stored
Trial(raises, metric, seconds) ==
    /\ UNCHANGED notAutoML
    /\ run_pc = "trial"
    /\ study' = Append(study, TrialRecord(raises, metric))
    /\ elapsed' = Clock(elapsed + seconds)
    /\ run_pc' = "search"
    /\ UNCHANGED <<max_trials, timeout_seconds, results, best_model, best_score,
                   best_algorithm, run_no, algorithms, alg_idx,
                   all_results, split, outcome, final_fit, searches>>

\* the study has a best trial: some trial is complete
HasBestTrial(trials) == \E k \in DOMAIN trials : trials[k].state = "COMPLETE"

\* study.best_trial: the first complete trial of least value
BestTrial(trials) ==
    CHOOSE k \in DOMAIN trials :
        /\ trials[k].state = "COMPLETE"
        /\ \A j \in DOMAIN trials :
              trials[j].state = "COMPLETE" =>
                  \/ trials[k].value < trials[j].value
                  \/ (trials[k].value = trials[j].value /\ k <= j)

\* study.optimize returns: no further trial may start
SearchEnds == ~CanStartTrial(Len(study), elapsed)

\* lines 208-217; best_params is named by the trial that suggested it
CompletedResult(a, score, model, n, params) ==
    [algorithm |-> a, status |-> "completed", error |-> "", best_score |-> score,
     best_model |-> model, n_trials |-> n, best_params |-> params]

\* lines 125-130
FailedResult(a, e) ==
    [algorithm |-> a, status |-> "failed", error |-> e, best_score |-> Inf,
     best_model |-> NoModel, n_trials |-> 0, best_params |-> 0]

\* a comparison that takes every score the current best is not below
NotWorse(score, current) == ~Lt(current, score)

\* lines 119-122
IsBetter(score, current) == Lt(score, current)

\* a SearchResult that reports the value of the study's best trial
BestScoreOfStudy(final_score, best_value) == best_value

\* line 211, "best_score": metrics[self.metric], the final model's metric
BestScore(final_score, best_value) == final_score

\* a coordinator whose best score is the value of the study's best trial
SelectedFromStudy(result, algorithm) ==
    [best_score |-> study[BestTrial(study)].value,
     best_model |-> result.best_model, best_algorithm |-> algorithm]

\* lines 120-122: what the three fields become when the result is better
Selected(result, algorithm) ==
    [best_score |-> result["best_score"], best_model |-> result["best_model"],
     best_algorithm |-> algorithm]

\* lines 196-206: best_params of the best trial, a model created from them,
\* fitted once on the training part and evaluated on the validation part
FinalFit(trials, model, score, raised) ==
    [fit_calls |-> 1, params |-> BestTrial(trials), model |-> model,
     score |-> score, raised |-> raised]

(***************************************************************************)
(* _optimize_algorithm, lines 195-217, and the loop body of run(), lines   *)
(* 116-130.  `refit` is "raise" when fitting, predicting or evaluating the *)
(* final model raises, else "ok" with the final model's metric `score`.    *)
(***************************************************************************)
FinishSearch(refit, score) ==
    /\ UNCHANGED notAutoML
    /\ run_pc = "search"
    /\ SearchEnds
    /\ LET a == algorithms[alg_idx]
           model == ModelHandle(run_no, alg_idx, a)
       IN  IF ~HasBestTrial(study)
           THEN \* study.best_params raises ValueError
                /\ all_results' = Append(all_results, FailedResult(a, "no_best_trial"))
                /\ final_fit' = NoFit
                /\ UNCHANGED <<best_score, best_model, best_algorithm>>
           ELSE IF refit = "raise"
           THEN /\ all_results' = Append(all_results, FailedResult(a, "refit_raised"))
                /\ final_fit' = FinalFit(study, model, 0, TRUE)
                /\ UNCHANGED <<best_score, best_model, best_algorithm>>
           ELSE LET result ==
                        CompletedResult(a, BestScore(score, study[BestTrial(study)].value),
                                        model, Len(study), BestTrial(study))
                IN  /\ all_results' = Append(all_results, result)
                    /\ final_fit' = FinalFit(study, model, score, FALSE)
                    /\ IF IsBetter(result.best_score, best_score)
                       THEN /\ best_score' = Selected(result, a).best_score
                            /\ best_model' = Selected(result, a).best_model
                            /\ best_algorithm' = Selected(result, a).best_algorithm
                       ELSE UNCHANGED <<best_score, best_model, best_algorithm>>
    /\ alg_idx' = alg_idx + 1
    /\ run_pc' = "loop"
    /\ study' = <<>>
    /\ elapsed' = 0
    /\ UNCHANGED <<max_trials, timeout_seconds, results, run_no, algorithms, split,
                   outcome, searches>>

(***************************************************************************)
(* run(), lines 132-145: sort, store and return; the locals of the call    *)
(* are gone once it has returned                                           *)
(***************************************************************************)
Return ==
    /\ UNCHANGED notAutoML
    /\ run_pc = "loop"
    /\ alg_idx > Len(algorithms)
    /\ LET sorted == ListSort(all_results)
       IN  /\ results' = sorted
           /\ outcome' = [best_algorithm |-> best_algorithm,
                          best_score |-> best_score,
                          best_model |-> best_model,
                          all_results |-> sorted,
                          algorithms_tested |-> algorithms]
    /\ run_pc' = "returned"
    /\ all_results' = <<>>
    /\ algorithms' = <<>>
    /\ alg_idx' = 0
    /\ split' = NoSplit
    /\ final_fit' = NoFit
    /\ UNCHANGED <<max_trials, timeout_seconds, best_model, best_score,
                   best_algorithm, run_no, study, elapsed, searches>>

NextAutoML ==
    \/ \E df \in DataFrames, fc \in FeatureColumnChoices, is_none \in BOOLEAN,
          algs \in RequestLists : Run(df, fc, is_none, algs)
    \/ StartSearch
    \/ StartTrial
    \/ \E raises \in BOOLEAN, metric \in Scores, seconds \in TrialSeconds :
          Trial(raises, metric, seconds)
    \/ \E refit \in {"ok", "raise"}, score \in Scores : FinishSearch(refit, score)
    \/ Return

(***************************************************************************)
(* Missing values and series.  A target series is the target column in     *)
(* date order; NA is pandas' NaN in a column whose values are positive.    *)
(***************************************************************************)
NA == 0 - 1

\* Series.shift(k)
Shift(s, k) == [i \in 1..Len(s) |-> IF i > k THEN s[i - k] ELSE NA]

\* a window of W values ending at row i exists and holds no NaN
\* (rolling(window=W) has min_periods = W)
WindowDefined(s, W, i) == i >= W /\ \A j \in (i - W + 1)..i : s[j] # NA

RECURSIVE SumOver(_, _, _)
\* s[lo] + ... + s[hi]
SumOver(s, lo, hi) == IF lo > hi THEN 0 ELSE s[lo] + SumOver(s, lo + 1, hi)

RECURSIVE SumSqOver(_, _, _)
SumSqOver(s, lo, hi) ==
    IF lo > hi THEN 0 ELSE s[lo] * s[lo] + SumSqOver(s, lo + 1, hi)

(***************************************************************************)
(* Series.rolling(window=W) statistics at row i.  The window size is fixed *)
(* per column, so the mean is represented by W * mean (the window's sum)   *)
(* and the sample standard deviation by W * (W - 1) * variance; a window   *)
(* of one value has no sample standard deviation.                          *)
(***************************************************************************)
RollingMean(s, W, i) ==
    IF WindowDefined(s, W, i) THEN SumOver(s, i - W + 1, i) ELSE NA

RollingStd(s, W, i) ==
    IF WindowDefined(s, W, i) /\ W > 1
    THEN W * SumSqOver(s, i - W + 1, i)
         - SumOver(s, i - W + 1, i) * SumOver(s, i - W + 1, i)
    ELSE NA

RollingMin(s, W, i) ==
    IF WindowDefined(s, W, i)
    THEN CHOOSE m \in {s[j] : j \in (i - W + 1)..i} :
             \A j \in (i - W + 1)..i : m <= s[j]
    ELSE NA

RollingMax(s, W, i) ==
    IF WindowDefined(s, W, i)
    THEN CHOOSE m \in {s[j] : j \in (i - W + 1)..i} :
             \A j \in (i - W + 1)..i : m >= s[j]
    ELSE NA

(***************************************************************************)
(* app.ml.feature_engineering.TimeSeriesFeatureEngineer.create_features    *)
(***************************************************************************)
ML_LAGS == <<1, 2, 3, 7, 14, 21, 28>>
ML_WINDOWS == <<7, 14, 28>>

\* for lag in [...]: if lag < len(df)
MlLags(s) == {ML_LAGS[k] : k \in {j \in DOMAIN ML_LAGS : ML_LAGS[j] < Len(s)}}

\* for window in [...]: if window < len(df)
MlWindows(s) == {ML_WINDOWS[k] : k \in {j \in DOMAIN ML_WINDOWS : ML_WINDOWS[j] < Len(s)}}

\* df[target_column].shift(lag)
MlLagCell(s, lag, i) == Shift(s, lag)[i]

\* df[target_column].shift(1).rolling(window=window).mean() and .std()
MlRollingCell(s, W, i) ==
    <<RollingMean(Shift(s, 1), W, i), RollingStd(Shift(s, 1), W, i)>>

\* the feature values of row i; `row` stands for the five date features,
\* which are functions of the row's date alone
MlFeatureRow(s, i) ==
    [row  |-> i,
     lags |-> [lag \in MlLags(s) |-> MlLagCell(s, lag, i)],
     roll |-> [W \in MlWindows(s) |-> MlRollingCell(s, W, i)]]

\* df.dropna(subset=features + [target_column]) keeps row i
MlRowKept(s, i) ==
    /\ s[i] # NA
    /\ \A lag \in MlLags(s) : MlLagCell(s, lag, i) # NA
    /\ \A W \in MlWindows(s) : /\ MlRollingCell(s, W, i)[1] # NA
                               /\ MlRollingCell(s, W, i)[2] # NA

\* the rows of df_clean, in order
MlCleanRows(s) == SelectSeq([i \in 1..Len(s) |-> i], LAMBDA i : MlRowKept(s, i))

\* create_features: X, y and self.lookback = len(df) - len(df_clean)
MlCreateFeatures(s) ==
    LET clean == MlCleanRows(s)
    IN  [X        |-> [k \in 1..Len(clean) |-> MlFeatureRow(s, clean[k])],
         y        |-> [k \in 1..Len(clean) |-> s[clean[k]]],
         rows     |-> clean,
         lookback |-> Len(s) - Len(clean)]

\* df[date_column].iloc[feature_engineer.lookback:], each date named by its row
EndpointDates(s, lookback) == [k \in 1..(Len(s) - lookback) |-> lookback + k]

(***************************************************************************)
(* Metric values.  A metric is a Python float or None.  A number is kept   *)
(* exactly, as a fraction in lowest terms; the square root of RMSE is not  *)
(* taken, so the rmse field holds the mean squared error it is the root    *)
(* of.                                                                     *)
(***************************************************************************)
Abs(x) == IF x < 0 THEN 0 - x ELSE x

RECURSIVE GCD(_, _)
GCD(a, b) == IF b = 0 THEN a ELSE GCD(b, a % b)

\* the float n / d, for d > 0
Number(n, d) ==
    LET g == GCD(Abs(n), d)
    IN  [kind |-> "number", num |-> n \div g, den |-> d \div g]

\* np.nan
NaNMetric == [kind |-> "nan", num |-> 0, den |-> 1]

\* None
NoneMetric == [kind |-> "none", num |-> 0, den |-> 1]

\* the positions of a pair of arrays
Positions(y_true) == 1..Len(y_true)

\* the positions kept by a mask, in order
Masked(y, keep) == SelectSeq([i \in 1..Len(y) |-> i], LAMBDA i : i \in keep)

\* y[mask]
Take(y, idx) == [k \in 1..Len(idx) |-> y[idx[k]]]

RECURSIVE SumAbsErr(_, _, _)
\* sum of |y_true - y_pred| over the positions k..Len
SumAbsErr(t, p, k) ==
    IF k > Len(t) THEN 0 ELSE Abs(t[k] - p[k]) + SumAbsErr(t, p, k + 1)

RECURSIVE SumSqErr(_, _, _)
SumSqErr(t, p, k) ==
    IF k > Len(t) THEN 0
    ELSE (t[k] - p[k]) * (t[k] - p[k]) + SumSqErr(t, p, k + 1)

RECURSIVE Product(_, _)
\* |t[k]| * ... * |t[Len]|
Product(t, k) == IF k > Len(t) THEN 1 ELSE Abs(t[k]) * Product(t, k + 1)

RECURSIVE SumRelErr(_, _, _)
\* Product(t, 1) times the sum of |(t - p) / t| over the positions k..Len
SumRelErr(t, p, k) ==
    IF k > Len(t) THEN 0
    ELSE Abs(t[k] - p[k]) * (Product(t, 1) \div Abs(t[k])) + SumRelErr(t, p, k + 1)

\* sklearn mean_absolute_error, on non-empty arrays without NaN
MeanAbsoluteError(t, p) == Number(SumAbsErr(t, p, 1), Len(t))

\* sklearn mean_squared_error, on non-empty arrays without NaN
MeanSquaredError(t, p) == Number(SumSqErr(t, p, 1), Len(t))

\* np.mean(np.abs((t - p) / t)) * 100, on non-empty arrays of non-zero t
MeanAbsPctError(t, p) == Number(100 * SumRelErr(t, p, 1), Len(t) * Product(t, 1))

\* sklearn r2_score: nan for fewer than two samples; for a constant y_true
\* 1.0 when the prediction is exact, else 0.0
R2Score(t, p) ==
    LET n == Len(t)
        \* n times the total sum of squares
        sst == n * SumSqOver(t, 1, n) - SumOver(t, 1, n) * SumOver(t, 1, n)
        sse == SumSqErr(t, p, 1)
    IN  IF n < 2 THEN NaNMetric
        ELSE IF sst = 0 THEN (IF sse = 0 THEN Number(1, 1) ELSE Number(0, 1))
        ELSE Number(sst - n * sse, sst)

\* a mask that looks at y_true only
KeepWhereTruePresent(t, p) == {i \in Positions(t) : t[i] # NA}

\* base_model.py line 44: ~(np.isnan(y_true) | np.isnan(y_pred))
KeepMask(t, p) == {i \in Positions(t) : ~(t[i] = NA \/ p[i] = NA)}

\* base_model.py line 52, backtesting.py line 18: y_true != 0
NonZeroMask(t) == {i \in Positions(t) : t[i] # 0}

\* BaseForecaster.evaluate, base_model.py lines 41-65
EvaluateMetrics(y_true, y_pred) ==
    LET mask == Masked(y_true, KeepMask(y_true, y_pred))
        t == Take(y_true, mask)
        p == Take(y_pred, mask)
        nz == Masked(t, NonZeroMask(t))
    IN  IF Len(t) = 0
        THEN [mape |-> NaNMetric, rmse |-> NaNMetric, mae |-> NaNMetric,
              r2 |-> NaNMetric]
        ELSE [mape |-> IF Len(nz) > 0
                       THEN MeanAbsPctError(Take(t, nz), Take(p, nz))
                       ELSE NaNMetric,
              rmse |-> MeanSquaredError(t, p),
              mae  |-> MeanAbsoluteError(t, p),
              r2   |-> R2Score(t, p)]

\* mean_absolute_error and mean_squared_error raise ValueError on an empty
\* array and on an array holding NaN
SklearnRaises(y_true, y_pred) ==
    \/ Len(y_true) = 0
    \/ \E i \in Positions(y_true) : y_true[i] = NA \/ y_pred[i] = NA

\* the truth value of a float: 0.0 is falsy
Truthy(x) == ~(x.kind = "number" /\ x.num = 0) /\ x.kind # "none"

\* WalkForwardBacktester._calculate_metrics, backtesting.py lines 15-20, when
\* it does not raise
CalculateMetrics(y_true, y_pred) ==
    LET nz == Masked(y_true, NonZeroMask(y_true))
        mape == IF Len(nz) > 0
                THEN MeanAbsPctError(Take(y_true, nz), Take(y_pred, nz))
                ELSE NoneMetric
    IN  [mae  |-> MeanAbsoluteError(y_true, y_pred),
         rmse |-> MeanSquaredError(y_true, y_pred),
         mape |-> IF Truthy(mape) THEN mape ELSE NoneMetric]

\* the sum of two numbers
Plus(a, b) == Number(a.num * b.den + b.num * a.den, a.den * b.den)

\* the difference of two numbers
Minus(a, b) == Number(a.num * b.den - b.num * a.den, a.den * b.den)

\* the square of a number
Squared(a) == Number(a.num * a.num, a.den * a.den)

RECURSIVE SumOfNumbers(_, _)
\* xs[k] + ... + xs[Len]
SumOfNumbers(xs, k) ==
    IF k > Len(xs) THEN Number(0, 1) ELSE Plus(xs[k], SumOfNumbers(xs, k + 1))

\* np.mean of a non-empty list of numbers
MeanOf(xs) ==
    LET total == SumOfNumbers(xs, 1)
    IN  Number(total.num, total.den * Len(xs))

\* the square of np.std of a non-empty list of numbers: the mean of the
\* squares less the square of the mean (the root is not taken)
VarianceOf(xs) ==
    Minus(MeanOf([k \in 1..Len(xs) |-> Squared(xs[k])]), Squared(MeanOf(xs)))

(***************************************************************************)
(* WalkForwardBacktester                                                   *)
(***************************************************************************)
\* bounds of the backtests explored
MaxInitialTrain == 3
MaxTestSize == 2
MaxStepSize == 2
MaxRows == 6
MaxCalls == 2
\* length of the data set the endpoint loads
MaxSeriesLen == 9

\* the worked example of the walk-forward backtest
Example == [n |-> 100, initial_train_size |-> 60, test_size |-> 20, step_size |-> 20]

BacktestParams ==
    [initial_train_size : 1..MaxInitialTrain, test_size : 1..MaxTestSize,
     step_size : 1..MaxStepSize]
    \cup {[initial_train_size |-> Example.initial_train_size,
           test_size |-> Example.test_size, step_size |-> Example.step_size]}

\* the row counts explored: the small ones, and the example's for a
\* backtester of the example's sizes
RowCounts ==
    1..MaxRows \cup
    (IF /\ initial_train_size = Example.initial_train_size
        /\ test_size = Example.test_size
        /\ step_size = Example.step_size
     THEN {Example.n} ELSE {})

\* the target columns the endpoint loads: all values present, or one missing
EndpointSeries ==
    UNION {{[i \in 1..n |-> 1]}
           \cup {[i \in 1..n |-> IF i = k THEN NA ELSE 1] : k \in 1..n}
           : n \in 1..MaxSeriesLen}

\* Python's X[lo:hi] on n rows, for 0 <= lo: the 0-based positions taken
SliceRows(lo, hi, n) == {i \in 0..(n - 1) : lo <= i /\ i < hi}

Min(a, b) == IF a <= b THEN a ELSE b

\* a size check that forgets the test window
InsufficientForTraining(n, initial, test) == n < initial

\* line 24
InsufficientData(n, initial, test) == n < initial + test

\* a loop that stops one window early
LoopContinuesStrictly(e, test, n) == e + test < n

\* line 32
LoopContinues(e, test, n) == e + test <= n

\* line 35
TestEnd(e, test, n) == Min(e + test, n)

\* a window that slides by the test size instead of the step
NextTrainEndByTest(e, step, test) == e + test

\* line 55
NextTrainEnd(e, step, test) == e + step

NoError == [need |-> 0, got |-> 0]
NoRequest == [initial_train_size |-> 0, test_size |-> 0, step_size |-> 0]
NoStatistics == [mape_mean |-> NoneMetric, mape_std |-> NoneMetric]
NoReport == [num_folds |-> 0, fold_results |-> <<>>, overall_metrics |-> <<>>,
             metric_statistics |-> NoStatistics]

\* the state of a default-constructed backtester on which nothing was called
InitBacktestObject(params) ==
    /\ initial_train_size = params.initial_train_size
    /\ test_size = params.test_size
    /\ step_size = params.step_size
    /\ bt_results = <<>>
    /\ bt_pc = "idle"
    /\ bt_calls = 0
    /\ n_samples = 0
    /\ fold = 0
    /\ train_end = 0
    /\ bt_rows = <<>>
    /\ bt_y = <<>>
    /\ all_predictions = <<>>
    /\ all_actuals = <<>>
    /\ bt_dates = <<>>
    /\ bt_error = NoError
    /\ bt_report = NoReport
    /\ models_created = 0
    /\ model_fits = <<>>
    /\ ep_series = <<>>
    /\ ep_request = NoRequest

\* WalkForwardBacktester.__init__ with its default sizes
DefaultParams == [initial_train_size |-> 365, test_size |-> 30, step_size |-> 30]

\* a call that goes on with the folds the backtester already holds
ResultsKept(stored) == stored

\* line 27: self.results = []
ResultsReset(stored) == <<>>

\* backtest(), lines 23-30, on a backtester of the given sizes: the size
\* precondition, then the reset
BacktestEnter(n, rows, y, dates, initial, test) ==
    /\ n_samples' = n
    /\ bt_calls' = bt_calls + 1
    /\ IF InsufficientData(n, initial, test)
       THEN /\ bt_pc' = "raised"
            /\ bt_error' = [need |-> initial + test, got |-> n]
            /\ UNCHANGED <<bt_results, fold, train_end, bt_rows, bt_y,
                           all_predictions, all_actuals, bt_dates>>
       ELSE /\ bt_pc' = "loop"
            /\ bt_error' = NoError
            /\ bt_results' = ResultsReset(bt_results)
            /\ fold' = 0
            /\ train_end' = initial
            /\ bt_rows' = rows
            /\ bt_y' = y
            /\ all_predictions' = <<>>
            /\ all_actuals' = <<>>
            /\ bt_dates' = dates

\* a direct call backtest(X, y, dates) with aligned rows
Backtest(y) ==
    /\ bt_pc \in {"idle", "returned", "raised", "failed"}
    \* the backtester run_backtest creates is local to it: nothing calls it again
    /\ ep_series = <<>>
    /\ bt_calls < MaxCalls
    /\ LET n == Len(y)
       IN  BacktestEnter(n, [k \in 1..n |-> k], y, [k \in 1..n |-> k],
                         initial_train_size, test_size)
    /\ UNCHANGED <<initial_train_size, test_size, step_size, bt_report,
                   models_created, model_fits, ep_series, ep_request>>
    /\ UNCHANGED notBacktest

\* what model.predict(X_test) of line 41 returns for the fold's y_test: the
\* actuals themselves, each actual plus one, or no number at all
PredictorKinds == {"exact", "over", "nan"}

Predicted(kind, y_test) ==
    [k \in 1..Len(y_test) |->
        IF kind = "nan" \/ y_test[k] = NA THEN NA
        ELSE IF kind = "over" THEN y_test[k] + 1
        ELSE y_test[k]]

\* a loop that keeps the first model object it created for every later fold
FoldModelKept(created) == IF created = 0 THEN 1 ELSE created

\* line 39, model = self.model_class(**self.model_params): the object the
\* fold fits and predicts with is a new one, the (created + 1)-th
FoldModel(created) == created + 1

\* line 40, model.fit(X_train, y_train), on the object numbered `model`
FitModel(fits, model, X_train) ==
    IF model > Len(fits) THEN Append(fits, <<X_train>>)
    ELSE [fits EXCEPT ![model] = Append(@, X_train)]

\* one iteration of the loop of lines 32-55; the sklearn call of
\* _calculate_metrics raises on a NaN, and backtest() with it
BacktestFold(kind) ==
    /\ bt_pc = "loop"
    /\ LoopContinues(train_end, test_size, n_samples)
    /\ LET test_end == TestEnd(train_end, test_size, n_samples)
           y_test == SubSeq(bt_y, train_end + 1, test_end)
           y_pred == Predicted(kind, y_test)
           model == FoldModel(models_created)
       IN  /\ fold' = fold + 1
           /\ model_fits' = FitModel(model_fits, model,
                                     SliceRows(0, train_end, n_samples))
           /\ models_created' = Len(model_fits')
           /\ IF SklearnRaises(y_test, y_pred)
              THEN /\ bt_pc' = "failed"
                   /\ UNCHANGED <<bt_results, all_predictions, all_actuals, train_end>>
              ELSE /\ bt_results' = Append(bt_results,
                          [fold       |-> fold + 1,
                           train_rows |-> SliceRows(0, train_end, n_samples),
                           test_rows  |-> SliceRows(train_end, test_end, n_samples),
                           train_end  |-> bt_dates[train_end],
                           test_start |-> bt_dates[train_end + 1],
                           test_end   |-> bt_dates[test_end],
                           y_test     |-> y_test,
                           y_pred     |-> y_pred,
                           model      |-> model,
                           metrics    |-> CalculateMetrics(y_test, y_pred)])
                   /\ all_predictions' = all_predictions \o y_pred
                   /\ all_actuals' = all_actuals \o y_test
                   /\ train_end' = NextTrainEnd(train_end, step_size, test_size)
                   /\ UNCHANGED bt_pc
    /\ UNCHANGED <<initial_train_size, test_size, step_size, bt_calls,
                   n_samples, bt_rows, bt_y, bt_dates, bt_error, bt_report,
                   ep_series, ep_request>>
    /\ UNCHANGED notBacktest

\* line 58: the per-fold MAPEs that are truthy, in fold order
Mapes(fold_results) ==
    LET kept == SelectSeq(fold_results, LAMBDA r : Truthy(r.metrics.mape))
    IN  [k \in 1..Len(kept) |-> kept[k].metrics.mape]

\* lines 63-66
MetricStatistics(mapes) ==
    [mape_mean |-> IF mapes # <<>> THEN MeanOf(mapes) ELSE NoneMetric,
     mape_std  |-> IF mapes # <<>> THEN VarianceOf(mapes) ELSE NoneMetric]

\* lines 57-68: the loop is over, the report is returned
BacktestReturn ==
    /\ bt_pc = "loop"
    /\ ~LoopContinues(train_end, test_size, n_samples)
    /\ IF SklearnRaises(all_actuals, all_predictions)
       THEN \* line 57 raises
            /\ bt_pc' = "failed"
            /\ UNCHANGED bt_report
       ELSE /\ bt_report' = [num_folds |-> fold,
                             overall_metrics |->
                                 CalculateMetrics(all_actuals, all_predictions),
                             metric_statistics |-> MetricStatistics(Mapes(bt_results)),
                             fold_results |-> bt_results]
            /\ bt_pc' = "returned"
    /\ UNCHANGED <<initial_train_size, test_size, step_size, bt_results, bt_calls,
                   n_samples, fold, train_end, bt_rows, bt_y, all_predictions,
                   all_actuals, bt_dates, bt_error, models_created, model_fits,
                   ep_series, ep_request>>
    /\ UNCHANGED notBacktest

(***************************************************************************)
(* run_backtest_endpoint, lines 32-47, and run_backtest, lines 70-81: the  *)
(* features are derived, the dates are cut, the size is checked and a new  *)
(* backtester runs on them                                                 *)
(***************************************************************************)
\* endpoint line 44
EndpointInsufficient(have, min_required) == have < min_required

RunBacktestEndpoint(series, params) ==
    \* every object the handler uses is created by it, so a request starts
    \* from the constructed state whatever was served before
    /\ bt_pc = "idle"
    /\ ep_series' = series
    /\ ep_request' = params
    /\ LET derived == MlCreateFeatures(series)
           dates == EndpointDates(series, derived.lookback)
           min_required == params.initial_train_size + params.test_size
       IN  IF EndpointInsufficient(Len(derived.X), min_required)
           THEN /\ bt_pc' = "http400"
                /\ bt_error' = [need |-> min_required, got |-> Len(derived.X)]
                /\ bt_calls' = bt_calls + 1
                /\ UNCHANGED <<initial_train_size, test_size, step_size, bt_results,
                               n_samples, fold, train_end, bt_rows, bt_y,
                               all_predictions, all_actuals, bt_dates>>
           ELSE \* run_backtest: WalkForwardBacktester(...).backtest(...)
                /\ initial_train_size' = params.initial_train_size
                /\ test_size' = params.test_size
                /\ step_size' = params.step_size
                /\ BacktestEnter(Len(derived.y), derived.rows, derived.y, dates,
                                 params.initial_train_size, params.test_size)
    /\ UNCHANGED <<bt_report, models_created, model_fits>>
    /\ UNCHANGED notBacktest

NextBacktest ==
    \/ \E n \in RowCounts : Backtest([k \in 1..n |-> 1])
    \/ BacktestFold("exact")
    \/ BacktestReturn
    \/ bt_pc = "idle" /\ \E series \in EndpointSeries, params \in BacktestParams :
          RunBacktestEndpoint(series, params)

(***************************************************************************)
(* app.services.feature_engineering.feature_service                        *)
(* TimeSeriesFeatureEngineer: the engine the AutoML coordinator uses       *)
(***************************************************************************)
\* bounds of the derivations explored
MaxFeatureLen == 4
MaxDerivations == 2

TargetValues == {1, 2}

RECURSIVE SeriesOf(_)
\* the target columns of n present values
SeriesOf(n) ==
    IF n = 0 THEN {<<>>}
    ELSE {Append(s, v) : s \in SeriesOf(n - 1), v \in TargetValues}

FeatureSeries == UNION {SeriesOf(n) : n \in 1..MaxFeatureLen}

\* the lag_periods and rolling_windows arguments explored
LagChoices == {<<1>>, <<1, 2>>}
WindowChoices == {<<2>>, <<2, 3>>}

\* a column of the frame: f"lag_{period}", f"rolling_mean_{window}", ...;
\* the calendar and trend columns carry no number
Col(kind, k) == [kind |-> kind, k |-> k]

\* create_lag_features: the names appended, in order
LagNames(periods) == [j \in 1..Len(periods) |-> Col("lag", periods[j])]

RECURSIVE RollingNames(_)
\* create_rolling_features: the names appended, in order
RollingNames(windows) ==
    IF windows = <<>> THEN <<>>
    ELSE <<Col("rolling_mean", Head(windows)), Col("rolling_std", Head(windows)),
           Col("rolling_min", Head(windows)), Col("rolling_max", Head(windows))>>
         \o RollingNames(Tail(windows))

\* calendar_features, lines 107-111
CALENDAR_FEATURES ==
    <<Col("day_of_week", 0), Col("day_of_month", 0), Col("day_of_year", 0),
      Col("week_of_year", 0), Col("month", 0), Col("quarter", 0), Col("year", 0),
      Col("is_weekend", 0), Col("is_month_start", 0), Col("is_month_end", 0),
      Col("is_quarter_start", 0), Col("is_quarter_end", 0), Col("is_holiday", 0)>>

\* trend_features, lines 130-133
TREND_FEATURES ==
    <<Col("days_since_start", 0), Col("day_sin", 0), Col("day_cos", 0),
      Col("week_sin", 0), Col("week_cos", 0), Col("month_sin", 0),
      Col("month_cos", 0)>>

RECURSIVE AddColumns(_, _)
\* self.df[name] = ... for each name: a new column goes last, an existing
\* one is overwritten in place
AddColumns(cols, names) ==
    IF names = <<>> THEN cols
    ELSE AddColumns(IF Head(names) \in Range(cols) THEN cols
                    ELSE Append(cols, Head(names)),
                    Tail(names))

\* the value of column c at row i of an engine whose target column is s;
\* a calendar or trend value is a function of the row's date alone, and the
\* row stands for it
ServiceCell(s, c, i) ==
    CASE c.kind = "lag"          -> Shift(s, c.k)[i]
      [] c.kind = "rolling_mean" -> RollingMean(s, c.k, i)
      [] c.kind = "rolling_std"  -> RollingStd(s, c.k, i)
      [] c.kind = "rolling_min"  -> RollingMin(s, c.k, i)
      [] c.kind = "rolling_max"  -> RollingMax(s, c.k, i)
      [] OTHER                   -> i

\* self.df: one row per row of the data, with the columns added so far
ServiceFrame(s, cols) ==
    [i \in 1..Len(s) |->
        [row |-> i, target |-> s[i],
         cells |-> [c \in Range(cols) |-> ServiceCell(s, c, i)]]]

\* no create_all_features() call was made
NoConfig == [lag_periods |-> <<>>, rolling_windows |-> <<>>,
             include_calendar |-> FALSE, include_trend |-> FALSE]

\* TimeSeriesFeatureEngineer(df, date_column, target_column)
InitFeaturesObject(series) ==
    /\ svc_series = series
    /\ svc_columns = <<>>
    /\ created_features = <<>>
    /\ svc_pc = "new"
    /\ svc_calls = 0
    /\ svc_frame = <<>>
    /\ svc_config = NoConfig
    /\ ml_feature_cols = <<>>

\* create_all_features, lines 21-40, with create_lag_features,
\* create_rolling_features, create_calendar_features, create_trend_features
CreateAllFeatures(lag_periods, rolling_windows, include_calendar, include_trend) ==
    /\ svc_calls < MaxDerivations
    /\ svc_calls' = svc_calls + 1
    /\ svc_config' = [lag_periods |-> lag_periods, rolling_windows |-> rolling_windows,
                      include_calendar |-> include_calendar,
                      include_trend |-> include_trend]
    /\ LET derived == LagNames(lag_periods) \o RollingNames(rolling_windows)
                      \o (IF include_calendar THEN CALENDAR_FEATURES ELSE <<>>)
           cols == AddColumns(svc_columns, derived)
       IN  IF include_trend /\ Col("day_of_year", 0) \notin Range(cols)
           THEN \* line 123: KeyError, after line 120 added days_since_start
                /\ svc_pc' = "raised"
                /\ svc_columns' = AddColumns(cols, <<Col("days_since_start", 0)>>)
                /\ created_features' = created_features \o derived
                /\ UNCHANGED svc_frame
           ELSE LET trend == IF include_trend THEN TREND_FEATURES ELSE <<>>
                IN  /\ svc_pc' = "returned"
                    /\ svc_columns' = AddColumns(cols, trend)
                    /\ created_features' = created_features \o derived \o trend
                    /\ svc_frame' = ServiceFrame(svc_series, AddColumns(cols, trend))
    /\ UNCHANGED <<svc_series, ml_feature_cols>>
    /\ UNCHANGED notFeatures

\* get_feature_names, lines 138-140: the list object itself is returned, so
\* the caller's name for it and self.created_features are one list
GetFeatureNames(names) == names

\* the feature_columns argument of run(): None, or covariate columns, one of
\* which may bear the name of a derived column
ExtraColumns == {<<>>, <<Col("promo", 0)>>, <<Col("promo", 0), Col("lag", 1)>>}

\* automl_service.py line 86: [c for c in feature_columns if c not in
\* ml_feature_cols]
NotIn(feature_columns, names) ==
    SelectSeq(feature_columns, LAMBDA c : c \notin Range(names))

\* automl_service.py lines 84-86, after create_all_features returned at line
\* 78: the coordinator takes the engine's list and extends it in place
ReadFeatureNames(feature_columns) ==
    /\ svc_pc = "returned"
    /\ ml_feature_cols = <<>>
    /\ LET names == GetFeatureNames(created_features)
           extended == IF feature_columns # <<>>
                       THEN names \o NotIn(feature_columns, names)
                       ELSE names
       IN  /\ ml_feature_cols' = extended
           /\ created_features' = extended
    /\ UNCHANGED <<svc_series, svc_columns, svc_pc, svc_calls, svc_frame, svc_config>>
    /\ UNCHANGED notFeatures

NextFeatures ==
    \/ \E lag_periods \in LagChoices, rolling_windows \in WindowChoices,
          include_calendar \in BOOLEAN, include_trend \in BOOLEAN :
           CreateAllFeatures(lag_periods, rolling_windows, include_calendar,
                             include_trend)
    \/ \E feature_columns \in ExtraColumns : ReadFeatureNames(feature_columns)

\* bounds of the metric computations explored
MaxPairs == 2
MaxValue == 2

RECURSIVE ArraysOf(_)
\* the arrays of n values, each a number 0..MaxValue or NaN
ArraysOf(n) ==
    IF n = 0 THEN {<<>>}
    ELSE {Append(a, v) : a \in ArraysOf(n - 1), v \in (0..MaxValue) \cup {NA}}

\* the (y_true, y_pred) arguments explored, with the two worked examples
MetricInputs ==
    UNION {{<<t, p>> : t \in ArraysOf(n), p \in ArraysOf(n)} : n \in 0..MaxPairs}
    \cup {<<<<10, 20>>, <<11, 18>>>>, <<<<0, 0, 0>>, <<1, 2, 3>>>>}

NoMetrics == [raised |-> FALSE, metrics |-> <<>>]

InitMetrics ==
    /\ mt_fn = "none"
    /\ mt_true = <<>>
    /\ mt_pred = <<>>
    /\ mt_result = NoMetrics

\* a call model.evaluate(y_true, y_pred); the function reads nothing but its
\* arguments, so one call is followed from the initial state
Evaluate(y_true, y_pred) ==
    /\ mt_fn = "none"
    /\ mt_fn' = "evaluate"
    /\ mt_true' = y_true
    /\ mt_pred' = y_pred
    /\ mt_result' = [raised |-> FALSE, metrics |-> EvaluateMetrics(y_true, y_pred)]
    /\ UNCHANGED notMetrics

\* a call backtester._calculate_metrics(y_true, y_pred)
CalculateMetricsCall(y_true, y_pred) ==
    /\ mt_fn = "none"
    /\ mt_fn' = "_calculate_metrics"
    /\ mt_true' = y_true
    /\ mt_pred' = y_pred
    /\ mt_result' = IF SklearnRaises(y_true, y_pred)
                    THEN [raised |-> TRUE, metrics |-> <<>>]
                    ELSE [raised |-> FALSE,
                          metrics |-> CalculateMetrics(y_true, y_pred)]
    /\ UNCHANGED notMetrics

(***************************************************************************)
(* The forecasters: services/forecasting/lightgbm_model.py, arima_model.py *)
(* and prophet_model.py on base_model.py.  Of an object the model keeps    *)
(* is_fitted and, for the properties, whether a fit() call on it (or on    *)
(* the object whose file it loaded) has returned.                          *)
(***************************************************************************)
Variants == {"lightgbm", "arima", "prophet"}

\* base_model.py line 16 under each __init__; auto_arima is the ARIMA
\* hyperparameter of arima_model.py line 21
NewForecaster(auto) == [auto_arima |-> auto, is_fitted |-> FALSE, fit_returned |-> FALSE]

NoFile == [written |-> FALSE, is_fitted |-> FALSE, fit_returned |-> FALSE]

NoCall == [variant |-> "none", method |-> "none", result |-> "none",
           was_fitted |-> FALSE, fit_had_returned |-> FALSE]

InitForecasters(auto) ==
    /\ forecasters = [v \in Variants |-> NewForecaster(auto)]
    /\ fc_file = NoFile
    /\ fc_call = NoCall

\* LightGBMForecaster(), ARIMAForecaster(auto_arima=auto), ProphetForecaster()
Construct(v, auto) ==
    /\ v # "arima" => auto
    /\ forecasters' = [forecasters EXCEPT ![v] = NewForecaster(auto)]
    /\ UNCHANGED <<fc_file, fc_call>>
    /\ UNCHANGED notForecasters

\* arima_model.py lines 72-81: with auto_arima off self.model is the result
\* of statsmodels' ARIMA(...).fit(), whose fittedvalues is an array and not
\* a method, so line 81 raises TypeError after line 80 has run
FitRaisesAfterFlag(v, auto) == v = "arima" /\ ~auto

\* fit(): the library's fitting raises (library_raises) or not; is_fitted is
\* set once it has not (lightgbm 74-75, arima 80, prophet 72-73), and the
\* statements after that line run
Fit(v, library_raises) ==
    LET o == forecasters[v]
    IN  /\ forecasters' = [forecasters EXCEPT ![v] =
               IF library_raises THEN o
               ELSE [o EXCEPT !.is_fitted = TRUE,
                              !.fit_returned =
                                  o.fit_returned \/ ~FitRaisesAfterFlag(v, o.auto_arima)]]
        /\ UNCHANGED <<fc_file, fc_call>>
        /\ UNCHANGED notForecasters

NOT_FITTED == "ValueError: Model must be fitted before prediction"

\* what follows the is_fitted test of predict and predict_interval
AfterFitted == {"predictions", "other error"}

\* predict (lightgbm 87-105, arima 86-100, prophet 77-94) and
\* predict_interval (lightgbm 107-124, which calls predict first; arima
\* 102-131; prophet 96-134)
Predict(v, method, after) ==
    LET o == forecasters[v]
    IN  /\ fc_call' = [variant |-> v, method |-> method,
                       result |-> IF ~o.is_fitted THEN NOT_FITTED ELSE after,
                       was_fitted |-> o.is_fitted,
                       fit_had_returned |-> o.fit_returned]
        /\ UNCHANGED <<forecasters, fc_file>>
        /\ UNCHANGED notForecasters

\* base_model.py lines 112-123
Save(v) ==
    /\ fc_file' = [written |-> TRUE, is_fitted |-> forecasters[v].is_fitted,
                   fit_returned |-> forecasters[v].fit_returned]
    /\ UNCHANGED <<forecasters, fc_call>>
    /\ UNCHANGED notForecasters

\* base_model.py lines 125-133
Load(v) ==
    /\ fc_file.written
    /\ forecasters' = [forecasters EXCEPT ![v].is_fitted = fc_file.is_fitted,
                                          ![v].fit_returned = fc_file.fit_returned]
    /\ UNCHANGED <<fc_file, fc_call>>
    /\ UNCHANGED notForecasters

NextForecasters ==
    \/ \E v \in Variants, auto \in BOOLEAN : Construct(v, auto)
    \/ \E v \in Variants, library_raises \in BOOLEAN : Fit(v, library_raises)
    \/ \E v \in Variants, method \in {"predict", "predict_interval"},
          after \in AfterFitted : Predict(v, method, after)
    \/ \E v \in Variants : Save(v)
    \/ \E v \in Variants : Load(v)

(***************************************************************************)
(* app.api.v1.endpoints.training: POST /automl and its background task,    *)
(* with the AutoMLRun and TrainedModel rows of app.models.models.  Tasks    *)
(* share nothing but the database, in which each writes its own rows; they *)
(* are executed one after the other here.                                  *)
(***************************************************************************)
\* POST /automl requests made
MaxRequests == 2

\* request.algorithms and request.max_trials (the schema admits 1..200):
\* every algorithm with one trial each, one algorithm with too few trials
\* for one, and a name that is not registered
Requests ==
    {[algorithms |-> <<>>, max_trials |-> 4],
     [algorithms |-> <<"prophet">>, max_trials |-> 2],
     [algorithms |-> <<"bogus">>, max_trials |-> 4]}

\* the Dataset row the request names: absent, not ready, ready
DatasetStates == {"absent", "processing", "ready"}

\* lines 61 and 78: request.algorithms or [...]
AlgorithmsOrDefault(algs) ==
    IF algs # <<>> THEN algs ELSE <<"prophet", "arima", "xgboost", "lightgbm">>

\* models.py lines 117-138 with the values of lines 59-65; None is 0 for an
\* id, "" for a text and FALSE for a time
NewAutoMLRun(algs, trials) ==
    [algorithms_tested |-> algs, max_trials |-> trials, status |-> "running",
     best_algorithm |-> "", best_model_id |-> 0, error_message |-> "",
     completed_at |-> FALSE]

NoTask == [run_id |-> 0, algorithms |-> <<>>, max_trials |-> 0, timeout_seconds |-> 0]

\* the state of the service before any request
InitDatabase(rows) ==
    /\ automl_runs = rows
    /\ trained_models = <<>>
    /\ task_queue = <<>>
    /\ task_pc = "none"
    /\ task = NoTask
    /\ tasks_ended = <<>>

\* run_automl, lines 42-83
RunAutomlEndpoint(dataset, algs, trials) ==
    /\ Len(automl_runs) < MaxRequests
    /\ IF dataset # "ready"
       THEN \* HTTP 404 or 400, lines 53-57
            UNCHANGED <<automl_runs, task_queue>>
       ELSE /\ automl_runs' = Append(automl_runs,
                                     NewAutoMLRun(AlgorithmsOrDefault(algs), trials))
            /\ task_queue' = Append(task_queue,
                                    [run_id |-> Len(automl_runs) + 1,
                                     algorithms |-> AlgorithmsOrDefault(algs),
                                     max_trials |-> trials, timeout_seconds |-> 60])
    /\ UNCHANGED <<trained_models, task_pc, task, tasks_ended>>
    /\ UNCHANGED <<amlVars, notTraining>>

\* a commit: it succeeds; it raises and the handler's own commit succeeds; or
\* both raise
Commits == {"ok", "raises", "raises_twice"}

\* a handler that reports every run as completed
RunMarkedCompleted(run, message) ==
    [run EXCEPT !.status = "completed", !.completed_at = TRUE]

\* lines 203-205 and 216-218
RunFailed(run, message) ==
    [run EXCEPT !.status = "failed", !.error_message = message,
                !.completed_at = TRUE]

\* lines 182-195
RunCompleted(run, best, model_id) ==
    [run EXCEPT !.best_algorithm = best, !.best_model_id = model_id,
                !.status = "completed", !.completed_at = TRUE]

\* lines 160-173
NewTrainedModel(run_results) ==
    [algorithm |-> run_results.best_algorithm, mape |-> run_results.best_score,
     status |-> "COMPLETED", is_best_model |-> TRUE]

\* lines 208-221: rollback, then the run is marked failed with str(e); when
\* that commit raises too the row stays as it was
Except(id, message, commit) ==
    IF commit = "raises_twice" THEN UNCHANGED automl_runs
    ELSE automl_runs' = [automl_runs EXCEPT ![id] = RunFailed(@, message)]

\* what is remembered of a task that ended: its run, whether the last
\* update of the run was committed, whether run() returned, and whether it
\* returned a best model
EndedTask(id, commit, returned, model) ==
    [run_id |-> id, persisted |-> commit # "raises_twice",
     returned |-> returned, best_model |-> model # NoModel]

\* AutoMLService.__init__ as a step: line 113-116 of the task
AutoMLServiceNew(trials, timeout) ==
    /\ max_trials' = trials
    /\ timeout_seconds' = timeout
    /\ results' = <<>>
    /\ best_model' = NoModel
    /\ best_score' = Inf
    /\ best_algorithm' = ""
    /\ run_pc' = "idle"
    /\ run_no' = 0
    /\ algorithms' = <<>>
    /\ alg_idx' = 0
    /\ all_results' = <<>>
    /\ study' = <<>>
    /\ elapsed' = 0
    /\ split' = NoSplit
    /\ outcome' = [best_algorithm |-> "", best_score |-> Inf, best_model |-> NoModel,
                   all_results |-> <<>>, algorithms_tested |-> <<>>]
    /\ final_fit' = NoFit
    /\ searches' = 0

\* what lines 100-106 do: the data set is loaded; its row is gone; reading or
\* sorting the file raises
Loads == {"loaded", "no dataset", "read raises"}

\* _run_automl_task, lines 98-116: the next scheduled task starts
TaskStart(load, commit) ==
    /\ task_pc \in {"none", "ended"}
    /\ task_queue # <<>>
    /\ task_queue' = Tail(task_queue)
    /\ task' = Head(task_queue)
    /\ IF load = "loaded"
       THEN /\ commit = "ok"
            /\ task_pc' = "automl"
            /\ AutoMLServiceNew(Head(task_queue).max_trials,
                                Head(task_queue).timeout_seconds)
            /\ UNCHANGED <<automl_runs, tasks_ended>>
       ELSE /\ commit # "raises"
            /\ task_pc' = "ended"
            /\ Except(Head(task_queue).run_id, load, commit)
            /\ tasks_ended' = Append(tasks_ended,
                                     EndedTask(Head(task_queue).run_id, commit,
                                               FALSE, NoModel))
            /\ AutoMLServiceNew(0, 0)
    /\ UNCHANGED trained_models
    /\ UNCHANGED notTraining

\* line 119: automl_service.run(df=df, ..., algorithms=algorithms)
TaskRun(has_target) ==
    /\ task_pc = "automl"
    /\ run_pc = "idle"
    /\ Run([has_date |-> TRUE, has_target |-> has_target, dates |-> UnsortedDates],
           <<>>, FALSE, task.algorithms)

\* line 132: the best model is an object or None
HasBestModel(run_results) == run_results.best_model # NoModel

\* _run_automl_task, lines 128-223, once run() has returned or raised;
\* `dump` is whether joblib.dump succeeds
TaskFinish(dump, commit) ==
    /\ task_pc = "automl"
    /\ run_pc \in {"returned", "raised"}
    /\ task_pc' = "ended"
    /\ LET id == task.run_id
           model_id == Len(trained_models) + 1
       IN  IF run_pc = "raised" \/ (HasBestModel(outcome) /\ dump = "raises")
           THEN \* the exception reaches line 208
                /\ commit # "raises"
                /\ Except(id, "error", commit)
                /\ UNCHANGED trained_models
                /\ tasks_ended' =
                      Append(tasks_ended,
                             EndedTask(id, commit, run_pc = "returned",
                                       IF run_pc = "raised" THEN NoModel
                                       ELSE outcome.best_model))
           ELSE IF HasBestModel(outcome)
           THEN \* lines 133-198; the commit that may raise is that of line 196
                /\ trained_models' = Append(trained_models, NewTrainedModel(outcome))
                /\ IF commit = "ok"
                   THEN automl_runs' =
                          [automl_runs EXCEPT
                             ![id] = RunCompleted(@, outcome.best_algorithm, model_id)]
                   ELSE Except(id, "error", commit)
                /\ tasks_ended' = Append(tasks_ended,
                                         EndedTask(id, commit, TRUE, outcome.best_model))
           ELSE \* lines 200-206
                /\ UNCHANGED trained_models
                /\ IF commit = "ok"
                   THEN automl_runs' =
                          [automl_runs EXCEPT
                             ![id] = RunFailed(@, "No model was trained successfully")]
                   ELSE Except(id, "error", commit)
                /\ tasks_ended' = Append(tasks_ended,
                                         EndedTask(id, commit, TRUE, NoModel))
    \* line 223 and the return: the task's service object is gone
    /\ AutoMLServiceNew(0, 0)
    /\ UNCHANGED <<task_queue, task>>
    /\ UNCHANGED notTraining

NextTraining ==
    \/ \E dataset \in DatasetStates, request \in Requests :
          RunAutomlEndpoint(dataset, request.algorithms, request.max_trials)
    \/ \E load \in Loads, commit \in Commits : TaskStart(load, commit)
    \/ \E has_target \in BOOLEAN : TaskRun(has_target)
    \/ StartSearch
    \/ StartTrial
    \/ \E raises \in BOOLEAN : Trial(raises, 1, 100)
    \/ \E refit \in {"ok", "raise"}, score \in {1, NaN} : FinishSearch(refit, score)
    \/ Return
    \/ \E dump \in {"ok", "raises"}, commit \in Commits : TaskFinish(dump, commit)

NextMetrics ==
    \/ mt_fn = "none" /\ \E in \in MetricInputs : Evaluate(in[1], in[2])
    \/ mt_fn = "none" /\ \E in \in MetricInputs : CalculateMetricsCall(in[1], in[2])

\* the AutoML coordinator alone; the backtester is the one its constructor's
\* defaults give and the feature engine holds a one-row series
InitSpecAutoML ==
    \E trials \in 0..MaxTrialBudget, timeout \in {0, 300} :
        /\ InitAutoMLObject(trials, timeout)
        /\ InitBacktestObject(DefaultParams)
        /\ InitFeaturesObject(<<1>>)
        /\ InitMetrics
        /\ InitForecasters(TRUE)
        /\ InitDatabase(<<>>)

SpecAutoML == InitSpecAutoML /\ [][NextAutoML]_vars

(***************************************************************************)
(* The search of one algorithm at a time, with budgets that allow several  *)
(* trials and deadlines that a trial can outlast.                          *)
(***************************************************************************)
\* the constructor's max_trials is drawn from 0..MaxSearchBudget
MaxSearchBudget == 8

\* the constructor's timeout_seconds
SearchTimeouts == {0, 4, 8}

InitSpecSearch ==
    \E trials \in 0..MaxSearchBudget, timeout \in SearchTimeouts :
        /\ InitAutoMLObject(trials, timeout)
        /\ InitBacktestObject(DefaultParams)
        /\ InitFeaturesObject(<<1>>)
        /\ InitMetrics
        /\ InitForecasters(TRUE)
        /\ InitDatabase(<<>>)

\* run() on a frame that has its columns, for one algorithm
RunOne ==
    \E a \in {"prophet", "xgboost"} :
        Run([has_date |-> TRUE, has_target |-> TRUE, dates |-> UnsortedDates],
            <<>>, FALSE, <<a>>)

NextSearch ==
    \/ RunOne
    \/ StartSearch
    \/ StartTrial
    \/ \E raises \in BOOLEAN, metric \in Scores, seconds \in TrialSeconds :
          Trial(raises, metric, seconds)
    \/ \E refit \in {"ok", "raise"}, score \in Scores : FinishSearch(refit, score)
    \/ Return

SpecSearch == InitSpecSearch /\ [][NextSearch]_vars

(***************************************************************************)
(* The coordinator on frames of every length and row order, with one       *)
(* trial per algorithm.                                                    *)
(***************************************************************************)
\* the frames hold up to MaxDataRows rows
MaxDataRows == 4

\* every order in which n rows of different dates can arrive
DateOrders(n) ==
    {d \in [1..n -> 1..n] : \A i, j \in 1..n : d[i] = d[j] => i = j}

SplitFrames ==
    {[has_date |-> TRUE, has_target |-> TRUE, dates |-> d] :
        d \in (UNION {DateOrders(n) : n \in 1..MaxDataRows})
               \cup {UnsortedDates, [i \in 1..10 |-> 11 - i]}}

InitSpecSplit ==
    /\ InitAutoMLObject(4, 400)
    /\ InitBacktestObject(DefaultParams)
    /\ InitFeaturesObject(<<1>>)
    /\ InitMetrics
    /\ InitForecasters(TRUE)
    /\ InitDatabase(<<>>)

RunSplit ==
    \E df \in SplitFrames, a \in {"prophet", "xgboost"} : Run(df, <<>>, FALSE, <<a>>)

NextSplit ==
    \/ RunSplit
    \/ StartSearch
    \/ StartTrial
    \/ \E raises \in BOOLEAN, metric \in Scores, seconds \in TrialSeconds :
          Trial(raises, metric, seconds)
    \/ \E refit \in {"ok", "raise"}, score \in Scores : FinishSearch(refit, score)
    \/ Return

SpecSplit == InitSpecSplit /\ [][NextSplit]_vars

\* the backtester and its endpoint alone; the coordinator is
\* AutoMLService(max_trials=50, timeout_seconds=300), its constructor's defaults
InitSpecBacktest ==
    \E params \in BacktestParams :
        /\ InitAutoMLObject(50, 300)
        /\ InitBacktestObject(params)
        /\ InitFeaturesObject(<<1>>)
        /\ InitMetrics
        /\ InitForecasters(TRUE)
        /\ InitDatabase(<<>>)

SpecBacktest == InitSpecBacktest /\ [][NextBacktest]_vars

(***************************************************************************)
(* The backtester on short target columns of every content, with models    *)
(* that predict exactly, too high, or nothing.                             *)
(***************************************************************************)
\* the y arguments hold up to MaxReportRows values
MaxReportRows == 4

\* one row to train on; a test window of one row, or of two overlapping rows
ReportParams ==
    {[initial_train_size |-> 1, test_size |-> 1, step_size |-> 1],
     [initial_train_size |-> 1, test_size |-> 2, step_size |-> 1]}

ReportTargets == UNION {ArraysOf(n) : n \in 2..MaxReportRows}

InitSpecReport ==
    \E params \in ReportParams :
        /\ InitAutoMLObject(50, 300)
        /\ InitBacktestObject(params)
        /\ InitFeaturesObject(<<1>>)
        /\ InitMetrics
        /\ InitForecasters(TRUE)
        /\ InitDatabase(<<>>)

\* backtest(X, y, dates) on a new backtester
BacktestOnce ==
    /\ bt_pc = "idle"
    /\ \E y \in ReportTargets : Backtest(y)

NextReport ==
    \/ BacktestOnce
    \/ \E kind \in PredictorKinds : BacktestFold(kind)
    \/ BacktestReturn

SpecReport == InitSpecReport /\ [][NextReport]_vars

\* the coordinator's feature engine alone, constructed on any of the series
InitSpecFeatures ==
    \E series \in FeatureSeries :
        /\ InitAutoMLObject(50, 300)
        /\ InitBacktestObject(DefaultParams)
        /\ InitFeaturesObject(series)
        /\ InitMetrics
        /\ InitForecasters(TRUE)
        /\ InitDatabase(<<>>)

SpecFeatures == InitSpecFeatures /\ [][NextFeatures]_vars

\* the metric computations alone
InitSpecMetrics ==
    /\ InitAutoMLObject(50, 300)
    /\ InitBacktestObject(DefaultParams)
    /\ InitFeaturesObject(<<1>>)
    /\ InitMetrics
    /\ InitForecasters(TRUE)
    /\ InitDatabase(<<>>)

SpecMetrics == InitSpecMetrics /\ [][NextMetrics]_vars

\* the training endpoint and its background tasks
InitSpecTraining ==
    /\ InitAutoMLObject(0, 0)
    /\ InitBacktestObject(DefaultParams)
    /\ InitFeaturesObject(<<1>>)
    /\ InitMetrics
    /\ InitForecasters(TRUE)
    /\ InitDatabase(<<>>)

SpecTraining == InitSpecTraining /\ [][NextTraining]_vars

\* the forecasters alone
InitSpecForecasters ==
    /\ InitAutoMLObject(50, 300)
    /\ InitBacktestObject(DefaultParams)
    /\ InitFeaturesObject(<<1>>)
    /\ InitMetrics
    /\ InitForecasters(TRUE)
    /\ InitDatabase(<<>>)

SpecForecasters == InitSpecForecasters /\ [][NextForecasters]_vars

(***************************************************************************)
(* Claims about feature derivation                                         *)
(***************************************************************************)
IsRolling(c) ==
    c.kind \in {"rolling_mean", "rolling_std", "rolling_min", "rolling_max"}

\* the largest lag or rolling window among the columns derived
LargestReach == 
    LET reach == {c.k : c \in {d \in Range(svc_columns) : d.kind = "lag" \/ IsRolling(d)}}
    IN  IF reach = {} THEN 0 ELSE CHOOSE m \in reach : \A k \in reach : k <= m

\* C8: a rolling feature at row i reads no target at or after row i: every
\* series that agrees with the engine's on the rows before i gives the same
\* value of every rolling column at row i.
C8_RollingReadsOnlyThePast ==
    svc_pc = "returned" =>
        \A i \in 1..Len(svc_frame) :
            \A c \in {d \in DOMAIN svc_frame[i].cells : IsRolling(d)} :
                \A t \in SeriesOf(Len(svc_series)) :
                    (\A j \in 1..(i - 1) : t[j] = svc_series[j]) =>
                        ServiceCell(t, c, i) = svc_frame[i].cells[c]

\* C20: a feature derivation that returns gives at least one row, and no
\* row it gives has an undefined lag or rolling value; when no row has all
\* its values the derivation fails instead.
C20_NoUndefinedFeatureRows ==
    svc_pc = "returned" =>
        /\ svc_frame # <<>>
        /\ \A i \in DOMAIN svc_frame :
              \A c \in DOMAIN svc_frame[i].cells :
                  (c.kind = "lag" \/ IsRolling(c)) => svc_frame[i].cells[c] # NA

\* C9: the features of a series of n present values have exactly
\* n - max(largest lag, largest window) rows.
C9_RowCountIsLeakageBoundary ==
    (svc_pc = "returned" /\ LargestReach < Len(svc_series)) =>
        Len(svc_frame) = Len(svc_series) - LargestReach


(***************************************************************************)
(* Claims about the walk-forward backtester                                *)
(***************************************************************************)
\* the folds of the call in progress, or of the call that just returned
BacktestRan == bt_pc \in {"loop", "returned"}

\* C5: the k-th fold of a backtest has training end e = initial + (k-1)*step
\* with e + test <= n, trains on exactly the rows [0, e) and tests on exactly
\* the rows [e, e + test); when the backtest returns, the next e no longer
\* satisfies e + test <= n and the report holds exactly these folds.
C5_FoldsWalkForward ==
    BacktestRan =>
        /\ \A k \in 1..Len(bt_results) :
              LET e == initial_train_size + (k - 1) * step_size
              IN  /\ e + test_size <= n_samples
                  /\ bt_results[k].fold = k
                  /\ bt_results[k].train_rows = 0..(e - 1)
                  /\ bt_results[k].test_rows = e..(e + test_size - 1)
        /\ bt_pc = "returned" =>
              /\ bt_report.fold_results = bt_results
              /\ initial_train_size + Len(bt_results) * step_size + test_size
                    > n_samples

\* a backtest returned three folds whose step differs from the test size
C5_Witness ==
    /\ bt_pc = "returned"
    /\ Len(bt_report.fold_results) = 3
    /\ step_size # test_size

\* C6: a backtest of n >= initial + test rows returns exactly
\* floor((n - initial - test) / step) + 1 folds; with n = 100, initial = 60,
\* test = 20 and step = 20 these are the two folds [0,60)/[60,80) and
\* [0,80)/[80,100).
C6_FoldCount ==
    (bt_pc = "returned" /\ n_samples >= initial_train_size + test_size) =>
        /\ bt_report.num_folds
              = (n_samples - initial_train_size - test_size) \div step_size + 1
        /\ Len(bt_report.fold_results) = bt_report.num_folds
        /\ (/\ n_samples = 100
            /\ initial_train_size = 60 /\ test_size = 20 /\ step_size = 20) =>
              /\ bt_report.num_folds = 2
              /\ bt_report.fold_results[1].train_rows = 0..59
              /\ bt_report.fold_results[1].test_rows = 60..79
              /\ bt_report.fold_results[2].train_rows = 0..79
              /\ bt_report.fold_results[2].test_rows = 80..99

\* the backtest of the worked example returned
C6_Witness ==
    /\ bt_pc = "returned"
    /\ n_samples = 100
    /\ initial_train_size = 60 /\ test_size = 20 /\ step_size = 20
    /\ bt_report.num_folds = 2

\* a rejected request: what was asked for, and the rows its features leave
RequestRows == Len(MlCleanRows(ep_series))
RequestNeeds == ep_request.initial_train_size + ep_request.test_size

\* C7: a backtest of fewer than initial + test rows is rejected with an error
\* naming the required and the available row counts, by the backtester and by
\* the endpoint alike, and the rejected call creates no model and records no
\* fold.
C7_InsufficientDataRejected ==
    /\ [](/\ (bt_calls > 0 /\ ep_series = <<>>
              /\ n_samples < initial_train_size + test_size) =>
                 /\ bt_pc = "raised"
                 /\ bt_error = [need |-> initial_train_size + test_size,
                                got  |-> n_samples]
          /\ (ep_series # <<>> /\ RequestRows < RequestNeeds) =>
                 /\ bt_pc = "http400"
                 /\ bt_error = [need |-> RequestNeeds, got |-> RequestRows])
    /\ [][(bt_calls' = bt_calls + 1 /\ bt_pc' \in {"raised", "http400"}) =>
              /\ models_created' = models_created
              /\ bt_results' = bt_results
              /\ bt_report' = bt_report]_vars
    /\ [](bt_pc \in {"raised", "http400"} => bt_error.got < bt_error.need)

\* a call was rejected by a backtester that holds the folds of an earlier call
C7_Witness ==
    /\ bt_pc = "raised"
    /\ bt_calls = 2
    /\ Len(bt_results) > 0
    /\ n_samples >= initial_train_size

\* C10: the feature rows, the targets and the dates the endpoint hands to the
\* backtester have the same length, and position k of each belongs to the
\* same row of the data, also when a target in the middle is missing.
C10_RowsShareTimestamps ==
    (ep_series # <<>> /\ BacktestRan) =>
        /\ Len(bt_rows) = n_samples
        /\ Len(bt_dates) = n_samples
        /\ \A k \in 1..n_samples : bt_dates[k] = bt_rows[k]

(***************************************************************************)
(* Claims about the metrics                                                *)
(***************************************************************************)
\* a metric is reported as undefined
Undefined(x) == x.kind \in {"nan", "none"}

\* two reported metrics are the same value, or both undefined
SameMetric(a, b) == (Undefined(a) /\ Undefined(b)) \/ a = b

RECURSIVE Pooled(_, _, _)
\* the y_test (which = "y_test") or y_pred arrays of the folds k.., joined
Pooled(fold_results, which, k) ==
    IF k > Len(fold_results) THEN <<>>
    ELSE (IF which = "y_test" THEN fold_results[k].y_test ELSE fold_results[k].y_pred)
         \o Pooled(fold_results, which, k + 1)

\* C17: the overall metrics of a returned backtest report are those evaluate
\* gives for the pooled pairs: the pool is every fold's test actuals and
\* predictions joined in fold order, num_folds * test_size pairs, and MAE,
\* RMSE and MAPE of the report are the values (or the undefined) of
\* evaluate(pooled actuals, pooled predictions).
C17_OverallMetricsAreEvaluate ==
    bt_pc = "returned" =>
        LET actuals == Pooled(bt_report.fold_results, "y_test", 1)
            predictions == Pooled(bt_report.fold_results, "y_pred", 1)
            evaluated == EvaluateMetrics(actuals, predictions)
        IN  /\ Len(actuals) = bt_report.num_folds * test_size
            /\ Len(predictions) = bt_report.num_folds * test_size
            /\ SameMetric(bt_report.overall_metrics.mae, evaluated.mae)
            /\ SameMetric(bt_report.overall_metrics.rmse, evaluated.rmse)
            /\ SameMetric(bt_report.overall_metrics.mape, evaluated.mape)

\* the folds of a report that have a test pair whose actual is not zero
FoldsWithMape(fold_results) ==
    SelectSeq(fold_results, LAMBDA r : \E i \in 1..Len(r.y_test) : r.y_test[i] # 0)

\* the MAPE of a fold over its test pairs whose actual is not zero
FoldMape(r) ==
    LET nz == Masked(r.y_test, NonZeroMask(r.y_test))
    IN  MeanAbsPctError(Take(r.y_test, nz), Take(r.y_pred, nz))

\* C18: the MAPE mean and standard deviation of a returned backtest report
\* are those of the MAPEs of exactly the folds that have a test pair with a
\* non-zero actual, and are undefined only when there is no such fold.
C18_MapeStatisticsOverDefinedFolds ==
    bt_pc = "returned" =>
        LET defined == FoldsWithMape(bt_report.fold_results)
            mapes == [k \in 1..Len(defined) |-> FoldMape(defined[k])]
            statistics == bt_report.metric_statistics
        IN  IF defined = <<>>
            THEN Undefined(statistics.mape_mean) /\ Undefined(statistics.mape_std)
            ELSE /\ statistics.mape_mean = MeanOf(mapes)
                 /\ statistics.mape_std = VarianceOf(mapes)

\* the pairs of the latest computation that have both values
RetainedPairs == {i \in 1..Len(mt_true) : mt_true[i] # NA /\ mt_pred[i] # NA}

\* those of them whose actual is not zero
NonZeroPairs == {i \in RetainedPairs : mt_true[i] # 0}

RECURSIVE SumOfRatios(_, _)
\* sum over the pairs I of 100 * |actual - predicted| / |actual|, as a fraction
\* [num, den]
SumOfRatios(I, acc) ==
    IF I = {} THEN acc
    ELSE LET i == CHOOSE j \in I : TRUE
             a == Abs(mt_true[i])
             e == Abs(mt_true[i] - mt_pred[i])
         IN  SumOfRatios(I \ {i}, [num |-> acc.num * a + 100 * e * acc.den,
                                   den |-> acc.den * a])

\* C13: in evaluate and in _calculate_metrics alike, MAPE is the mean over
\* the retained pairs with actual # 0 of |actual - predicted| / |actual| times
\* 100; it is undefined exactly when there is no such pair, and is that mean,
\* 0 included, when there is one.  actual=[10,20], predicted=[11,18] gives 10.
C13_MapeOverNonZeroActuals ==
    (mt_fn # "none" /\ ~mt_result.raised) =>
        LET mape == mt_result.metrics.mape
            total == SumOfRatios(NonZeroPairs, [num |-> 0, den |-> 1])
        IN  /\ Undefined(mape) <=> NonZeroPairs = {}
            /\ NonZeroPairs # {} =>
                  /\ mape.kind = "number"
                  /\ mape.num * total.den * Cardinality(NonZeroPairs)
                        = total.num * mape.den
            /\ (mt_true = <<10, 20>> /\ mt_pred = <<11, 18>>) =>
                  mape = [kind |-> "number", num |-> 10, den |-> 1]

\* the retained pairs, in order
RetainedSeq == Masked(mt_true, RetainedPairs)

RECURSIVE SumOverPairs(_, _)
\* sum over the pairs I of |actual - predicted| (power 1) or its square (2)
SumOverPairs(I, power) ==
    IF I = {} THEN 0
    ELSE LET i == CHOOSE j \in I : TRUE
             e == Abs(mt_true[i] - mt_pred[i])
         IN  (IF power = 1 THEN e ELSE e * e) + SumOverPairs(I \ {i}, power)

\* C14: evaluate leaves every pair with an undefined value out of all four
\* metrics: its result is the one it gives for the retained pairs alone, MAE
\* and RMSE are the means of the retained absolute and squared errors, and
\* with no retained pair all four metrics are undefined.
C14_EvaluateDropsUndefinedPairs ==
    mt_fn = "evaluate" =>
        LET got == mt_result.metrics
            n == Cardinality(RetainedPairs)
        IN  /\ ~mt_result.raised
            /\ got = EvaluateMetrics(Take(mt_true, RetainedSeq),
                                     Take(mt_pred, RetainedSeq))
            /\ n = 0 => /\ Undefined(got.mape) /\ Undefined(got.rmse)
                        /\ Undefined(got.mae) /\ Undefined(got.r2)
            /\ n > 0 => /\ got.mae.kind = "number"
                        /\ got.mae.num * n = got.mae.den * SumOverPairs(RetainedPairs, 1)
                        /\ got.rmse.kind = "number"
                        /\ got.rmse.num * n = got.rmse.den * SumOverPairs(RetainedPairs, 2)

\* evaluate was given a pair with an undefined prediction and a pair with
\* both values, the prediction of which is off
C14_Witness ==
    /\ mt_fn = "evaluate"
    /\ Len(mt_true) = 2
    /\ \E i \in 1..2 : mt_pred[i] = NA /\ mt_true[i] # NA
    /\ \E i \in RetainedPairs : mt_true[i] # mt_pred[i]

(***************************************************************************)
(* Claims about the search of one algorithm                                *)
(***************************************************************************)
\* a search is under way: between trials, or inside one
Searching == run_pc \in {"search", "trial"}

\* C11: with trial budget T, timeout S and N algorithms in the invocation,
\* the search of each algorithm is given floor(T/N) trials and floor(S/N)
\* seconds.
C11_AllotmentByInvocation ==
    Searching =>
        /\ TrialAllotment = max_trials \div Len(algorithms)
        /\ TimeAllotment = timeout_seconds \div Len(algorithms)

\* some trial of the study returned a number
HasFiniteTrial(trials) ==
    \E k \in DOMAIN trials : ~trials[k].raised /\ trials[k].value \in FiniteScores

\* C12: a trial that raises is stored with the score +infinity, the search
\* goes on to the next trial while trials and time remain, and the best trial
\* (whose configuration the SearchResult reports) is never a raised one while
\* some trial of the study returned a number.
C12_RaisingTrialIsWorst ==
    /\ [](\A k \in DOMAIN study :
            study[k].raised => study[k].value = Inf /\ study[k].state = "COMPLETE")
    /\ []((HasBestTrial(study) /\ HasFiniteTrial(study)) =>
            /\ ~study[BestTrial(study)].raised
            /\ study[BestTrial(study)].value \in FiniteScores)
    /\ [][(/\ run_pc = "search" /\ study # <<>> /\ study[Len(study)].raised
           /\ Len(study) < max_trials \div 4
           /\ elapsed < timeout_seconds \div 4) => run_pc' = "trial"]_vars
    /\ [][(run_pc = "search" /\ run_pc' = "loop" /\ HasFiniteTrial(study)
           /\ Len(all_results') > Len(all_results)
           /\ all_results'[Len(all_results')].status = "completed") =>
              ~study[all_results'[Len(all_results')].best_params].raised]_vars

\* the search went on after a trial that raised, and a later trial returned a
\* number
C12_Witness ==
    /\ run_pc = "search"
    /\ Len(study) = 2
    /\ study[1].raised
    /\ study[2].value \in FiniteScores

\* C19: a search never runs more trials than its allotment; a trial starts
\* only while fewer seconds than the allotment have elapsed; a trial that has
\* started is always stored, however long it takes; and once the allotted
\* seconds have elapsed the search stops although trials remain.
C19_SoftDeadlineBetweenTrials ==
    /\ [](Searching => /\ Len(study) <= max_trials \div 4
                        /\ Len(study) <= max_trials \div Len(algorithms))
    /\ [][(run_pc = "search" /\ run_pc' = "trial") =>
              /\ elapsed < timeout_seconds \div 4
              /\ Len(study) < max_trials \div 4]_vars
    /\ [][run_pc = "trial" =>
              /\ run_pc' = "search"
              /\ Len(study') = Len(study) + 1]_vars
    /\ [][(run_pc = "search" /\ elapsed >= timeout_seconds \div 4) =>
              run_pc' = "loop"]_vars

\* the deadline passed during a trial while the study had a trial left
C19_Witness ==
    /\ run_pc = "search"
    /\ Len(study) = 1
    /\ Len(study) < TrialAllotment
    /\ elapsed >= TimeAllotment

(***************************************************************************)
(* Claims about the AutoML coordinator, stated on the outcome run()        *)
(* returns.                                                                *)
(***************************************************************************)
\* positions of the completed SearchResults of a result list
CompletedIn(rs) == {k \in DOMAIN rs : rs[k].status = "completed"}

\* position, in the algorithm list, of the search that produced a completed
\* result
ListPosition(r) == r.best_model.idx

\* C16: a predict or predict_interval call on a forecaster on which no fit()
\* call has returned fails with the not-fitted error and gives no
\* predictions, and an object is_fitted only once a fit() call has returned.
C16_PredictNeedsSuccessfulFit ==
    /\ \A v \in Variants : forecasters[v].is_fitted => forecasters[v].fit_returned
    /\ (fc_call.variant # "none" /\ ~fc_call.fit_had_returned) =>
           fc_call.result = NOT_FITTED

\* a run() call has split its rows and not yet returned
HasSplit == run_pc \in {"loop", "search", "trial"}

\* the rows of a sequence, as a set
RowsOf(part) == {part[i] : i \in DOMAIN part}

\* C15: while a run() call works on n derived rows, its training part is the
\* first floor(0.8*n) rows in date order and its validation part the other
\* rows: the parts share no row, together they are all n rows, every training
\* row is dated before every validation row, and the ML features, the
\* statistical features and the targets are cut at the same row.
C15_SplitByOrder ==
    HasSplit =>
        LET n == split.n
            k == (8 * n) \div 10
        IN  /\ 10 * k <= 8 * n /\ 8 * n < 10 * (k + 1)
            /\ Len(split.y_train) = k
            /\ Len(split.y_val) = n - k
            /\ \A i \in 1..k : split.y_train[i] = i
            /\ \A i \in 1..(n - k) : split.y_val[i] = k + i
            /\ RowsOf(split.y_train) \cap RowsOf(split.y_val) = {}
            /\ RowsOf(split.y_train) \cup RowsOf(split.y_val) = 1..n
            /\ \A a \in RowsOf(split.y_train), b \in RowsOf(split.y_val) : a < b
            /\ split.X_ml_train = split.y_train /\ split.X_ml_val = split.y_val
            /\ split.X_stat_train = split.y_train /\ split.X_stat_val = split.y_val

\* ten rows that arrived newest first are split eight to two
C15_Witness ==
    /\ HasSplit
    /\ split.n = 10
    /\ split.y_train = <<1, 2, 3, 4, 5, 6, 7, 8>>
    /\ split.X_ml_val = <<9, 10>>

\* C1: the returned best algorithm is the algorithm whose score is the
\* minimum among the completed SearchResults of the run, the earliest in the
\* list on a tie.  Stated for the runs in which the minimum is a number: some
\* completed score is finite and none is NaN.
C1_BestIsMinimumOfRun ==
    run_pc = "returned" =>
        LET rs == outcome.all_results
            C  == CompletedIn(rs)
        IN  (/\ \E k \in C : rs[k].best_score \in FiniteScores
             /\ \A k \in C : rs[k].best_score # NaN)
            => \E k \in C :
                  /\ outcome.best_algorithm = rs[k].algorithm
                  /\ \A j \in C :
                        \/ rs[k].best_score < rs[j].best_score
                        \/ /\ rs[k].best_score = rs[j].best_score
                           /\ ListPosition(rs[k]) <= ListPosition(rs[j])

\* C2: the best algorithm, score and model a run() call returns are those of
\* one SearchResult of that call (or the empty best when the call completed
\* no search): nothing is carried over from an earlier call.
C2_OutcomeOfThisInvocation ==
    run_pc = "returned" =>
        LET rs == outcome.all_results
        IN  \/ \E k \in CompletedIn(rs) :
                  /\ outcome.best_algorithm = rs[k].algorithm
                  /\ outcome.best_score = rs[k].best_score
                  /\ outcome.best_model = rs[k].best_model
            \/ /\ outcome.best_algorithm = ""
               /\ outcome.best_score = Inf
               /\ outcome.best_model = NoModel

\* C3: an algorithm whose search failed is recorded as failed with an error
\* reason, is not the returned best algorithm (unless another search of the
\* same name completed in the run), and every algorithm of the list has its
\* record.
C3_FailedRecordedNeverBest ==
    run_pc = "returned" =>
        LET rs == outcome.all_results
        IN  /\ Len(rs) = Len(outcome.algorithms_tested)
            /\ \A k \in DOMAIN rs :
                  rs[k].status = "failed" =>
                      /\ rs[k].error # ""
                      /\ outcome.best_algorithm = rs[k].algorithm =>
                            \E j \in CompletedIn(rs) :
                                rs[j].algorithm = rs[k].algorithm

\* C4: run() never propagates an exception, and when every algorithm failed
\* the outcome has no best model and a failure reason per algorithm.
C4_AlwaysStructuredOutcome ==
    /\ run_pc # "raised"
    /\ run_pc = "returned" =>
          LET rs == outcome.all_results
          IN  CompletedIn(rs) = {} =>
                  /\ outcome.best_model = NoModel
                  /\ \A k \in DOMAIN rs : rs[k].error # ""

\* C22: every fold of a backtest creates one model object and fits it once:
\* a step creates an object exactly when it runs a fold, the folds of a call
\* predict with objects that differ from fold to fold, and the object a fold
\* predicts with has been fitted once, on the fold's training rows.
C22_NewModelPerFold ==
    /\ [](models_created = Len(model_fits))
    /\ [](\A k \in DOMAIN model_fits : Len(model_fits[k]) = 1)
    /\ [](BacktestRan =>
            /\ \A k \in DOMAIN bt_results :
                  /\ bt_results[k].model \in DOMAIN model_fits
                  /\ model_fits[bt_results[k].model] = <<bt_results[k].train_rows>>
            /\ \A j, k \in DOMAIN bt_results :
                  bt_results[j].model = bt_results[k].model => j = k)
    /\ [][(fold' = fold + 1) <=> (models_created' = models_created + 1)]_vars
    /\ [][(fold' # fold + 1) => (model_fits' = model_fits)]_vars

\* the second call on a backtester returned three folds, which predicted with
\* the third, fourth and fifth object the backtester created
C22_Witness ==
    /\ bt_pc = "returned"
    /\ bt_calls = 2
    /\ Len(bt_report.fold_results) = 3
    /\ bt_report.fold_results[1].model = 3
    /\ bt_report.fold_results[3].model = 5
    /\ models_created = 5

\* C23: a SearchResult is recorded only once no further trial of the search
\* can start; before a completed one is recorded, one model is created from
\* the configuration of the study's best trial and fitted once, and the
\* result's score, model and configuration are those of this final fit, not
\* of a trial; when the final fit raises, the algorithm is recorded as failed.
C23_FinalFitAfterSearch ==
    [][Len(all_results') = Len(all_results) + 1 =>
          LET r == all_results'[Len(all_results')]
          IN  /\ run_pc = "search" /\ SearchEnds
              /\ r.algorithm = algorithms[alg_idx]
              /\ r.status = "completed" =>
                    /\ HasBestTrial(study)
                    /\ final_fit'.fit_calls = 1
                    /\ ~final_fit'.raised
                    /\ final_fit'.params = BestTrial(study)
                    /\ r.best_params = final_fit'.params
                    /\ r.best_score = final_fit'.score
                    /\ r.best_model = final_fit'.model
                    /\ r.n_trials = Len(study)
                    /\ \A k \in DOMAIN all_results :
                          all_results[k].best_model # r.best_model
              /\ final_fit'.raised => r.status = "failed"
              /\ r.status = "failed" =>
                    final_fit'.raised \/ ~HasBestTrial(study)]_vars

\* a search of two trials, the second of which was the best, recorded a
\* completed result with the score 1 and the model of its one final fit
C23_Witness ==
    /\ run_pc = "loop"
    /\ all_results # <<>>
    /\ all_results[Len(all_results)].status = "completed"
    /\ all_results[Len(all_results)].n_trials = 2
    /\ all_results[Len(all_results)].best_params = 2
    /\ all_results[Len(all_results)].best_score = 1
    /\ final_fit.fit_calls = 1
    /\ final_fit.score = 1
    /\ final_fit.model = all_results[Len(all_results)].best_model

\* C25: the coordinator's best algorithm, best score and best model change
\* only in the step that records a completed SearchResult, and then all three
\* become that result's; while a search is in progress they are not those of
\* the algorithm being searched in this call, whatever its trials returned.
C25_BestFromFinishedResultOnly ==
    /\ [][<<best_algorithm, best_score, best_model>>'
             # <<best_algorithm, best_score, best_model>> =>
              /\ run_pc = "search" /\ run_pc' = "loop"
              /\ Len(all_results') = Len(all_results) + 1
              /\ LET r == all_results'[Len(all_results')]
                 IN  /\ r.status = "completed"
                     /\ best_algorithm' = r.algorithm
                     /\ best_score' = r.best_score
                     /\ best_model' = r.best_model]_vars
    /\ [](Searching =>
            best_model # ModelHandle(run_no, alg_idx, algorithms[alg_idx]))
    /\ [](/\ best_model.algorithm = best_algorithm
          /\ best_model = NoModel => best_score = Inf)

\* the search of a second call has a trial of value 1 while the best score
\* is still the 2 of the first call's result
C25_Witness ==
    /\ run_pc = "search"
    /\ run_no = 2
    /\ study # <<>>
    /\ study[1].value = 1
    /\ best_score = 2
    /\ best_model.run = 1

\* C26: a derivation call with the trend flag selected returns, with or
\* without the calendar flag, and the frame it returns and the feature-name
\* list hold the seven trend columns.
C26_TrendWithoutCalendar ==
    (svc_calls >= 1 /\ svc_config.include_trend) =>
        /\ svc_pc = "returned"
        /\ Range(TREND_FEATURES) \subseteq Range(svc_columns)
        /\ Range(TREND_FEATURES) \subseteq Range(created_features)
        /\ \A i \in DOMAIN svc_frame :
              Range(TREND_FEATURES) \subseteq DOMAIN svc_frame[i].cells

\* C27: on a coordinator whose max_trials is less than the number of
\* registered algorithms no trial is ever started, no final model is fitted,
\* every search is recorded as failed, and every run() call returns one
\* failed record per executed algorithm and no best model.
C27_BudgetBelowAlgorithmsFailsAll ==
    max_trials < NumAvailable =>
        /\ TrialAllotment = 0
        /\ run_pc # "trial"
        /\ study = <<>>
        /\ final_fit = NoFit
        /\ \A k \in DOMAIN all_results :
              /\ all_results[k].status = "failed"
              /\ all_results[k].error # ""
        /\ best_model = NoModel
        /\ run_pc = "returned" =>
              /\ Len(outcome.all_results) = Len(outcome.algorithms_tested)
              /\ \A k \in DOMAIN outcome.all_results :
                    /\ outcome.all_results[k].status = "failed"
                    /\ outcome.all_results[k].error # ""
              /\ outcome.best_model = NoModel
              /\ outcome.best_algorithm = ""

\* a run() call on a coordinator with max_trials = 3 returned its one
\* algorithm as failed
C27_Witness ==
    /\ max_trials = 3
    /\ run_pc = "returned"
    /\ Len(outcome.all_results) = 1
    /\ outcome.all_results[1].status = "failed"
    /\ outcome.best_model = NoModel

\* C28: the first run() call on a coordinator returns no best model exactly
\* when it returns the empty best algorithm, and exactly when it returns the
\* best score +infinity; the best score it returns is never NaN, and the best
\* model is never that of a completed result whose score is +infinity or NaN.
C28_NoBestIffInfinity ==
    (run_pc = "returned" /\ run_no = 1) =>
        LET rs == outcome.all_results
        IN  /\ (outcome.best_model = NoModel) <=> (outcome.best_algorithm = "")
            /\ (outcome.best_algorithm = "") <=> (outcome.best_score = Inf)
            /\ outcome.best_score # NaN
            /\ \A k \in CompletedIn(rs) :
                  rs[k].best_score \in {Inf, NaN} =>
                      outcome.best_model # rs[k].best_model

\* the first run() call completed a search with the score NaN and returned
\* no best model
C28_Witness ==
    /\ run_pc = "returned"
    /\ run_no = 1
    /\ CompletedIn(outcome.all_results) # {}
    /\ outcome.all_results[1].best_score = NaN
    /\ outcome.best_model = NoModel
    /\ outcome.best_score = Inf

\* C29: the fold list a backtester holds is numbered 1, 2, ... in increasing
\* train-end order; a call that passes the size check starts from the empty
\* list, a rejected call leaves the list as it was, and within a call the
\* list only grows by one fold at its end; a returned report holds this list
\* and num_folds is its length.
C29_FoldListOfLatestCall ==
    /\ [](\A k \in DOMAIN bt_results :
            /\ bt_results[k].fold = k
            /\ k > 1 =>
                  /\ bt_results[k - 1].train_end < bt_results[k].train_end
                  /\ Cardinality(bt_results[k - 1].train_rows)
                        < Cardinality(bt_results[k].train_rows))
    /\ [](bt_pc = "returned" =>
            /\ bt_report.fold_results = bt_results
            /\ bt_report.num_folds = Len(bt_report.fold_results)
            /\ \A k \in 1..bt_report.num_folds : bt_report.fold_results[k].fold = k)
    /\ [][(bt_calls' = bt_calls + 1 /\ bt_pc' = "loop") => bt_results' = <<>>]_vars
    /\ [][(bt_calls' = bt_calls + 1 /\ bt_pc' = "raised") =>
              bt_results' = bt_results]_vars
    /\ [][(bt_calls' = bt_calls /\ bt_results' # bt_results) =>
              /\ Len(bt_results') = Len(bt_results) + 1
              /\ SubSeq(bt_results', 1, Len(bt_results)) = bt_results]_vars

\* the second call on a backtester returned one fold after the first call
\* had made two
C29_Witness ==
    /\ bt_pc = "returned"
    /\ bt_calls = 2
    /\ models_created = 3
    /\ bt_report.num_folds = 1
    /\ Len(bt_results) = 1

\* C30: a run row is created with status running and no completion time;
\* once its task has ended and its last update was committed, the run is
\* completed or failed and has its completion time; a completed run belongs
\* to a task whose run() returned a best model and is linked to a stored
\* trained-model row of the best algorithm, which no other run is linked to;
\* every other ended run is failed with an error message and no model.
C30_RunEndsCompletedOrFailed ==
    /\ [][Len(automl_runs') # Len(automl_runs) =>
              /\ Len(automl_runs') = Len(automl_runs) + 1
              /\ SubSeq(automl_runs', 1, Len(automl_runs)) = automl_runs
              /\ automl_runs'[Len(automl_runs')].status = "running"
              /\ ~automl_runs'[Len(automl_runs')].completed_at
              /\ automl_runs'[Len(automl_runs')].best_model_id = 0]_vars
    /\ [](\A k \in DOMAIN tasks_ended :
            LET t == tasks_ended[k]
                r == automl_runs[t.run_id]
            IN  t.persisted =>
                    /\ r.status \in {"completed", "failed"}
                    /\ r.completed_at
                    /\ r.status = "completed" =>
                          /\ t.returned /\ t.best_model
                          /\ r.best_model_id \in DOMAIN trained_models
                          /\ r.best_algorithm # ""
                          /\ trained_models[r.best_model_id].algorithm
                                = r.best_algorithm
                    /\ r.status = "failed" =>
                          /\ r.error_message # ""
                          /\ r.best_model_id = 0
                    /\ ~(t.returned /\ t.best_model) => r.status = "failed")
    /\ [](\A i, j \in DOMAIN automl_runs :
            (/\ automl_runs[i].status = "completed"
             /\ automl_runs[j].status = "completed"
             /\ automl_runs[i].best_model_id = automl_runs[j].best_model_id)
                => i = j)
    /\ [](\A i \in DOMAIN automl_runs :
            automl_runs[i].status # "running" =>
                \E k \in DOMAIN tasks_ended : tasks_ended[k].run_id = i)

\* the task of the first run stored a model and completed the run; the task
\* of the second run got no best model and failed it
C30_Witness ==
    /\ Len(tasks_ended) = 2
    /\ automl_runs[1].status = "completed"
    /\ automl_runs[1].best_model_id = 1
    /\ automl_runs[1].completed_at
    /\ tasks_ended[2].returned
    /\ automl_runs[2].status = "failed"
    /\ automl_runs[2].error_message = "No model was trained successfully"

\* a list names no column twice
NoDuplicates(names) ==
    \A j, k \in DOMAIN names : names[j] = names[k] => j = k

\* C24: the engine's feature-name list after its first derivation call names
\* no column twice; a further derivation call with the same arguments leaves
\* the list as it was, and so does the coordinator when it reads the list and
\* appends the caller's extra columns to what it read.
C24_FeatureNamesStable ==
    /\ []((svc_calls = 1 /\ svc_pc = "returned" /\ ml_feature_cols = <<>>) =>
             NoDuplicates(created_features))
    /\ [][(/\ svc_calls >= 1
           /\ svc_calls' = svc_calls + 1
           /\ svc_config' = svc_config
           /\ svc_pc = "returned" /\ svc_pc' = "returned") =>
              created_features' = created_features]_vars
    /\ [][(ml_feature_cols' # ml_feature_cols) =>
              created_features' = created_features]_vars

\* how many positions of the list s hold x
CountOf(s, x) == Cardinality({k \in DOMAIN s : s[k] = x})

\* the position of the name a in a list that holds it once
RequestedPosition(algs, a) == CHOOSE k \in DOMAIN algs : algs[k] = a

\* C21: the result list a run() call returns holds one SearchResult for each
\* entry of the executed algorithm list, which has registered names only; the
\* failed results come after the completed ones, the completed ones are in
\* ascending order of score, and results of equal score are in the order in
\* which their algorithms were requested.
C21_ResultsSortedFailedLast ==
    run_pc = "returned" =>
        LET rs   == outcome.all_results
            algs == outcome.algorithms_tested
            names == [k \in DOMAIN rs |-> rs[k].algorithm]
        IN  /\ Range(algs) \subseteq Range(AVAILABLE_ALGORITHMS)
            /\ Len(rs) = Len(algs)
            /\ \A a \in Range(algs) : CountOf(names, a) = CountOf(algs, a)
            /\ \A i, j \in DOMAIN rs :
                  i < j =>
                      /\ rs[i].status = "failed" => rs[j].status = "failed"
                      /\ (rs[i].status = "completed" /\ rs[j].status = "completed")
                            => /\ rs[i].best_score # NaN
                               /\ rs[j].best_score # NaN
                               /\ rs[i].best_score <= rs[j].best_score
                      /\ (/\ rs[i].best_score = rs[j].best_score
                          /\ CountOf(algs, rs[i].algorithm) = 1
                          /\ CountOf(algs, rs[j].algorithm) = 1)
                            => RequestedPosition(algs, rs[i].algorithm)
                                  < RequestedPosition(algs, rs[j].algorithm)
====
